---- MODULE Spec2Model ----
(***************************************************************************)
(* The detection rules of the personal-information log checker             *)
(* (src/src/checkers/*.py, src/src/utils.py) and the three family runs     *)
(* that apply them (sayu_checker, login_checker, personal_file_checker).   *)
(*                                                                         *)
(* A DataFrame is a record [columns, rows].  Each element of rows stands   *)
(* for a run of n consecutive rows of the sheet that carry the same cell   *)
(* values (n = 1 is an ordinary row); index is the index label of the run  *)
(* in the table the rule was given (pandas keeps the label through         *)
(* filtering and sorting).  Counting rows (len, groupby().size()) adds the *)
(* n of the runs counted, summing a column adds n times the cell.          *)
(*                                                                         *)
(* A timestamp is the number of seconds since 2024-01-01 00:00:00, which   *)
(* is a Monday.                                                            *)
(***************************************************************************)
EXTENDS Integers, Sequences, FiniteSets, TLC

VARIABLES
    pc,       \* position in the family run that is executing
    df,       \* the table the family run acquired (None before / without it)
    results,  \* rule name -> what the rule function returned
    calls,    \* the rule functions invoked so far, in order, with the table each got
    files,    \* names of the report files written so far
    main,     \* where main() stands and how each family run it called ended
    download_dir  \* the source files in the input directory, where reading them is followed

vars == <<pc, df, results, calls, files, main, download_dir>>

-----------------------------------------------------------------------------
(* Cell values and Python's str()                                          *)

NaN == [tag |-> "nan", s |-> <<>>, v |-> 0]
StrV(s) == [tag |-> "str", s |-> s, v |-> 0]
IntV(v) == [tag |-> "int", s |-> <<>>, v |-> v]

\* pd.isna on a scalar cell
pd_isna(x) == x.tag = "nan"

DigitChar(d) == <<"0", "1", "2", "3", "4", "5", "6", "7", "8", "9">>[d + 1]

RECURSIVE Digits(_)
Digits(v) == IF v < 10 THEN <<DigitChar(v)>>
             ELSE Digits(v \div 10) \o <<DigitChar(v % 10)>>

\* str(x) of a cell: the text itself, the decimal digits of an integer, "nan"
py_str(x) == CASE x.tag = "str" -> x.s
               [] x.tag = "int" -> Digits(x.v)
               [] OTHER -> <<"n", "a", "n">>

\* set(text): the distinct characters
CharSet(s) == {s[i] : i \in 1..Len(s)}

\* b.startswith(a): a found at the first position of b only
py_in_prefix(a, b) == /\ Len(a) <= Len(b)
                      /\ \A k \in 1..Len(a) : b[k] = a[k]

\* a in b, for Python strings
py_in(a, b) == \E i \in 1..(Len(b) + 1) :
                  /\ i + Len(a) - 1 <= Len(b)
                  /\ \A k \in 1..Len(a) : b[i + k - 1] = a[k]

-----------------------------------------------------------------------------
(* Calendar: what .dt.hour, .dt.weekday, .dt.date and .dt.year give        *)

SECONDS_PER_HOUR == 3600
SECONDS_PER_DAY == 86400
FIRST_YEAR == 2024

IsLeap(y) == (y % 4 = 0 /\ y % 100 # 0) \/ y % 400 = 0
DaysIn(y) == IF IsLeap(y) THEN 366 ELSE 365
MonthDays(y) == <<31, IF IsLeap(y) THEN 29 ELSE 28, 31, 30, 31, 30, 31, 31, 30, 31, 30, 31>>

RECURSIVE DaysBeforeYear(_)
DaysBeforeYear(y) == IF y <= FIRST_YEAR THEN 0
                     ELSE DaysBeforeYear(y - 1) + DaysIn(y - 1)

RECURSIVE DaysBeforeMonth(_, _)
DaysBeforeMonth(y, m) == IF m <= 1 THEN 0
                         ELSE DaysBeforeMonth(y, m - 1) + MonthDays(y)[m - 1]

\* the date y-m-d as a day number (day 0 is 2024-01-01)
Date(y, m, d) == DaysBeforeYear(y) + DaysBeforeMonth(y, m) + (d - 1)

\* the instant y-m-d hh:mi:ss
At(y, m, d, hh, mi, ss) ==
    Date(y, m, d) * SECONDS_PER_DAY + hh * SECONDS_PER_HOUR + mi * 60 + ss

dt_date(t) == t \div SECONDS_PER_DAY
dt_hour(t) == (t % SECONDS_PER_DAY) \div SECONDS_PER_HOUR
dt_weekday(t) == dt_date(t) % 7

RECURSIVE YearOfDay(_, _)
YearOfDay(day, y) == IF day < DaysIn(y) THEN y ELSE YearOfDay(day - DaysIn(y), y + 1)

dt_year(t) == YearOfDay(dt_date(t), FIRST_YEAR)

\* The public holidays holidays.KR generates for one year (the generated
\* dates all lie in that year).
KRYear(y) ==
    IF y = 2024 THEN
        {Date(2024, 1, 1), Date(2024, 2, 9), Date(2024, 2, 10), Date(2024, 2, 11),
         Date(2024, 2, 12), Date(2024, 3, 1), Date(2024, 5, 5), Date(2024, 5, 6),
         Date(2024, 5, 15), Date(2024, 6, 6), Date(2024, 8, 15), Date(2024, 9, 16),
         Date(2024, 9, 17), Date(2024, 9, 18), Date(2024, 10, 3), Date(2024, 10, 9),
         Date(2024, 12, 25)}
    ELSE IF y = 2025 THEN
        {Date(2025, 1, 1), Date(2025, 1, 28), Date(2025, 1, 29), Date(2025, 1, 30),
         Date(2025, 3, 1), Date(2025, 3, 3), Date(2025, 5, 5), Date(2025, 5, 6),
         Date(2025, 6, 6), Date(2025, 8, 15), Date(2025, 10, 3), Date(2025, 10, 5),
         Date(2025, 10, 6), Date(2025, 10, 7), Date(2025, 10, 8), Date(2025, 10, 9),
         Date(2025, 12, 25)}
    ELSE {}

\* holidays.KR(years=years): the dates generated for the years asked for
holidays_KR(years) == UNION {KRYear(y) : y \in years}

-----------------------------------------------------------------------------
(* DataFrame helpers                                                       *)

None == [columns |-> <<"None">>, rows |-> <<>>]

\* the timestamp of an empty time cell: pd.to_datetime leaves it NaT.  Every
\* comparison with NaT is False, .dt.hour and .dt.weekday of it are NaN,
\* sort_values puts it last.
NaT == -1

Frame(columns, rows) == [columns |-> columns, rows |-> rows]

\* df[mask]: the rows whose index label the boolean mask marks, in order
RECURSIVE SelectRows(_, _)
SelectRows(rows, mask) ==
    IF rows = <<>> THEN <<>>
    ELSE (IF Head(rows).index \in mask THEN <<Head(rows)>> ELSE <<>>)
         \o SelectRows(Tail(rows), mask)

\* r1 comes strictly before r2 in the lexicographic order of the columns by
RECURSIVE LexLess(_, _, _)
LexLess(r1, r2, by) ==
    IF by = <<>> THEN FALSE
    ELSE \/ r1[Head(by)] # NaT /\ (r2[Head(by)] = NaT \/ r1[Head(by)] < r2[Head(by)])
         \/ r1[Head(by)] = r2[Head(by)] /\ LexLess(r1, r2, Tail(by))

\* insert one row into a sorted sequence after every row that is not greater
RECURSIVE InsertSorted(_, _, _)
InsertSorted(r, sorted, by) ==
    IF sorted = <<>> THEN <<r>>
    ELSE IF LexLess(r, Head(sorted), by) THEN <<r>> \o sorted
    ELSE <<Head(sorted)>> \o InsertSorted(r, Tail(sorted), by)

\* rows.sort_values(by): ascending, rows with equal keys keep their order
RECURSIVE sort_values(_, _)
sort_values(rows, by) ==
    IF rows = <<>> THEN <<>>
    ELSE InsertSorted(rows[Len(rows)], sort_values(SubSeq(rows, 1, Len(rows) - 1), by), by)

\* number of sheet rows a sequence of runs stands for (len of the frame)
RECURSIVE RowCount(_)
RowCount(rows) == IF rows = <<>> THEN 0 ELSE Head(rows).n + RowCount(Tail(rows))

IndexSet(rows) == {rows[i].index : i \in 1..Len(rows)}

\* an empty result built as pd.DataFrame(), without the columns
Returned_bare(columns, rows) ==
    [error |-> "none", columns |-> IF rows = <<>> THEN <<>> ELSE columns, rows |-> rows]

\* what a rule function hands back: a frame, or the exception it raised
Returned(columns, rows) == [error |-> "none", columns |-> columns, rows |-> rows]
Raise(e) == [error |-> e, columns |-> <<>>, rows |-> <<>>]

\* pd.to_datetime on a column that already holds timestamps leaves each as it is
ToTimestamp(t) == t
pd_to_datetime(rows, col) == [i \in 1..Len(rows) |-> [rows[i] EXCEPT ![col] = ToTimestamp(@)]]

\* the distinct values of a column (groupby keys, .unique())
ColumnValues(rows, col) == {rows[i][col] : i \in 1..Len(rows)}

\* no grouping: every group is the whole table
GroupRows_all(rows, col, key) == rows

\* the rows of one group, in table order
RECURSIVE GroupRows(_, _, _)
GroupRows(rows, col, key) ==
    IF rows = <<>> THEN <<>>
    ELSE (IF Head(rows)[col] = key THEN <<Head(rows)>> ELSE <<>>)
         \o GroupRows(Tail(rows), col, key)

\* sum of a numeric column over the sheet rows the runs stand for
RECURSIVE ColumnSum(_, _)
ColumnSum(rows, col) ==
    IF rows = <<>> THEN 0
    ELSE Head(rows).n * Head(rows)[col] + ColumnSum(Tail(rows), col)

-----------------------------------------------------------------------------
(* Download-reason rules: src/src/checkers/download_reason_checker.py      *)

COL_ACCESS_TIME == "time"
COL_EMPLOYEE_ID == "emp"
COL_DOWNLOAD_REASON == "reason"
COL_DOWNLOAD_COUNT == "count"
DOWNLOAD_COUNT_THRESHOLD == 100
DOWNLOAD_FREQUENCY_THRESHOLD == 20
DOWNLOAD_OFF_HOURS_START == 23
DOWNLOAD_OFF_HOURS_END == 8

\* column labels of the download sheet: reason is the 5th, count the 6th
DOWNLOAD_COLUMNS == <<"no", "emp", "name", "time", "reason", "count">>

\* the same without the test for a missing value
_unique_char_count_no_guard(text_input) ==
    Cardinality(CharSet(py_str(text_input))) <= 5

_unique_char_count_below_5(text_input) ==
    IF pd_isna(text_input) THEN FALSE
    ELSE Cardinality(CharSet(py_str(text_input))) <= 5

_check_download_sayu(d) ==
    IF Len(d.columns) < 5 THEN Raise("IndexError")
    ELSE IF d.columns[5] # COL_DOWNLOAD_REASON THEN Raise("ValueError")
    ELSE LET mask == {d.rows[i].index : i \in
                         {k \in 1..Len(d.rows) :
                             _unique_char_count_below_5(d.rows[k][COL_DOWNLOAD_REASON])}}
         IN  Returned(d.columns,
                      sort_values(SelectRows(d.rows, mask),
                                  <<COL_EMPLOYEE_ID, COL_ACCESS_TIME>>))

\* the employees whose download counts add up to the threshold exactly
target_users_at_exactly(d, threshold) ==
    LET download_sum_per_user ==
            [e \in ColumnValues(d.rows, COL_EMPLOYEE_ID) |->
                ColumnSum(GroupRows(d.rows, COL_EMPLOYEE_ID, e), COL_DOWNLOAD_COUNT)]
    IN  {e \in DOMAIN download_sum_per_user : download_sum_per_user[e] = threshold}

\* download_sum_per_user[download_sum_per_user >= threshold].index: the
\* employees whose download counts add up to the threshold or more
target_users_at(d, threshold) ==
    LET download_sum_per_user ==
            [e \in ColumnValues(d.rows, COL_EMPLOYEE_ID) |->
                ColumnSum(GroupRows(d.rows, COL_EMPLOYEE_ID, e), COL_DOWNLOAD_COUNT)]
    IN  {e \in DOMAIN download_sum_per_user : download_sum_per_user[e] >= threshold}

\* the same with a strict comparison against the threshold
_filter_high_download_users_above(d) ==
    IF Len(d.columns) < 6 THEN Raise("IndexError")
    ELSE IF d.columns[6] # COL_DOWNLOAD_COUNT THEN Raise("ValueError")
    ELSE LET download_sum_per_user ==
                 [e \in ColumnValues(d.rows, COL_EMPLOYEE_ID) |->
                     ColumnSum(GroupRows(d.rows, COL_EMPLOYEE_ID, e), COL_DOWNLOAD_COUNT)]
             target_users == {e \in DOMAIN download_sum_per_user :
                                 download_sum_per_user[e] > DOWNLOAD_COUNT_THRESHOLD}
             mask == {d.rows[i].index : i \in
                         {k \in 1..Len(d.rows) : d.rows[k][COL_EMPLOYEE_ID] \in target_users}}
         IN  Returned(d.columns,
                      sort_values(SelectRows(d.rows, mask),
                                  <<COL_EMPLOYEE_ID, COL_ACCESS_TIME>>))

_filter_high_download_users(d) ==
    IF Len(d.columns) < 6 THEN Raise("IndexError")
    ELSE IF d.columns[6] # COL_DOWNLOAD_COUNT THEN Raise("ValueError")
    ELSE LET target_users == target_users_at(d, DOWNLOAD_COUNT_THRESHOLD)
             mask == {d.rows[i].index : i \in
                         {k \in 1..Len(d.rows) : d.rows[k][COL_EMPLOYEE_ID] \in target_users}}
         IN  Returned(d.columns,
                      sort_values(SelectRows(d.rows, mask),
                                  <<COL_EMPLOYEE_ID, COL_ACCESS_TIME>>))

\* the rows of a group whose time lies in [lo, hi), the far end left out
RECURSIVE InWindow_open(_, _, _, _)
InWindow_open(group, col, lo, hi) ==
    IF group = <<>> THEN <<>>
    ELSE (IF /\ Head(group)[col] # NaT /\ lo # NaT
             /\ Head(group)[col] >= lo /\ Head(group)[col] < hi
          THEN <<Head(group)>> ELSE <<>>)
         \o InWindow_open(Tail(group), col, lo, hi)

\* the rows of a group whose time lies in [lo, hi], both ends included
RECURSIVE InWindow(_, _, _, _)
InWindow(group, col, lo, hi) ==
    IF group = <<>> THEN <<>>
    ELSE (IF /\ Head(group)[col] # NaT /\ lo # NaT
             /\ Head(group)[col] >= lo /\ Head(group)[col] <= hi
          THEN <<Head(group)>> ELSE <<>>)
         \o InWindow(Tail(group), col, lo, hi)

\* a scan that marks burst starts: the anchor alone is flagged, when it and
\* the downloads sorted after it within the hour reach the threshold
RECURSIVE HighFreqScan_forward(_, _)
HighFreqScan_forward(group, i) ==
    IF i > Len(group) THEN {}
    ELSE LET current_download_time == group[i][COL_ACCESS_TIME]
             window_end_time == current_download_time + 1 * SECONDS_PER_HOUR
             downloads_in_window ==
                 InWindow(SubSeq(group, i, Len(group)), COL_ACCESS_TIME,
                          current_download_time, window_end_time)
         IN  (IF RowCount(downloads_in_window) >= DOWNLOAD_FREQUENCY_THRESHOLD
              THEN {group[i].index} ELSE {})
             \cup HighFreqScan_forward(group, i + 1)

\* the same scan asking for more than DOWNLOAD_FREQUENCY_THRESHOLD downloads
RECURSIVE HighFreqScan_above(_, _)
HighFreqScan_above(group, i) ==
    IF i > Len(group) THEN {}
    ELSE LET current_download_time == group[i][COL_ACCESS_TIME]
             window_end_time == current_download_time + 1 * SECONDS_PER_HOUR
             downloads_in_window ==
                 InWindow(group, COL_ACCESS_TIME, current_download_time, window_end_time)
         IN  (IF RowCount(downloads_in_window) > DOWNLOAD_FREQUENCY_THRESHOLD
              THEN IndexSet(downloads_in_window) ELSE {})
             \cup HighFreqScan_above(group, i + 1)

\* the anchors i, i+1, ... of one time-sorted group: the index labels of the
\* one-hour windows that hold at least DOWNLOAD_FREQUENCY_THRESHOLD downloads
RECURSIVE HighFreqScan(_, _)
HighFreqScan(group, i) ==
    IF i > Len(group) THEN {}
    ELSE LET current_download_time == group[i][COL_ACCESS_TIME]
             window_end_time == current_download_time + 1 * SECONDS_PER_HOUR
             downloads_in_window ==
                 InWindow(group, COL_ACCESS_TIME, current_download_time, window_end_time)
         IN  (IF RowCount(downloads_in_window) >= DOWNLOAD_FREQUENCY_THRESHOLD
              THEN IndexSet(downloads_in_window) ELSE {})
             \cup HighFreqScan(group, i + 1)

_filter_high_freq_download(d) ==
    IF d = None THEN Raise("ValueError") ELSE
    LET df_copy == pd_to_datetime(d.rows, COL_ACCESS_TIME)
        flagged_indices ==
            UNION {HighFreqScan(sort_values(GroupRows(df_copy, COL_EMPLOYEE_ID, e),
                                            <<COL_ACCESS_TIME>>), 1) :
                   e \in ColumnValues(df_copy, COL_EMPLOYEE_ID)}
    IN  IF flagged_indices # {}
        THEN Returned(d.columns,
                      sort_values(SelectRows(df_copy, flagged_indices),
                                  <<COL_EMPLOYEE_ID, COL_ACCESS_TIME>>))
        ELSE Returned(d.columns, <<>>)

\* off_hours_start <= hour < off_hours_end, a range that does not wrap
IsOffHour_range(t, off_hours_start, off_hours_end) ==
    t # NaT /\ dt_hour(t) >= off_hours_start /\ dt_hour(t) < off_hours_end

\* hour < off_hours_end or hour >= off_hours_start
IsOffHour(t, off_hours_start, off_hours_end) ==
    t # NaT /\ (dt_hour(t) < off_hours_end \/ dt_hour(t) >= off_hours_start)

\* the year of the first row only
YearsOf_first(rows, col) == IF rows = <<>> THEN {} ELSE {dt_year(rows[1][col])}

\* .dt.year.unique() of the time column
YearsOf(rows, col) == {dt_year(rows[i][col]) : i \in 1..Len(rows)}

\* a variant that takes the calendar conditions together: off-hours on a day off
_filter_off_hour_and_holiday_both(d) ==
    IF d = None THEN Raise("ValueError") ELSE
    LET df_copy == pd_to_datetime(d.rows, COL_ACCESS_TIME)
        kr_holidays == holidays_KR(YearsOf(df_copy, COL_ACCESS_TIME))
    IN  IF NaT \in ColumnValues(df_copy, COL_ACCESS_TIME) THEN Raise("TypeError") ELSE
    LET
        mask == {df_copy[i].index : i \in
                    {k \in 1..Len(df_copy) :
                        LET t == df_copy[k][COL_ACCESS_TIME]
                        IN  /\ IsOffHour(t, DOWNLOAD_OFF_HOURS_START, DOWNLOAD_OFF_HOURS_END)
                            /\ (dt_weekday(t) >= 5 \/ dt_date(t) \in kr_holidays)}}
    IN  Returned(d.columns,
                 sort_values(SelectRows(df_copy, mask),
                             <<COL_EMPLOYEE_ID, COL_ACCESS_TIME>>))

_filter_off_hour_and_holiday(d) ==
    IF d = None THEN Raise("ValueError") ELSE
    LET df_copy == pd_to_datetime(d.rows, COL_ACCESS_TIME)
        years == YearsOf(df_copy, COL_ACCESS_TIME)
        kr_holidays == holidays_KR(years)
    IN  IF NaT \in ColumnValues(df_copy, COL_ACCESS_TIME) THEN Raise("TypeError") ELSE
    LET
        mask == {df_copy[i].index : i \in
                    {k \in 1..Len(df_copy) :
                        LET t == df_copy[k][COL_ACCESS_TIME]
                            is_off_hour == IsOffHour(t, DOWNLOAD_OFF_HOURS_START,
                                                     DOWNLOAD_OFF_HOURS_END)
                            is_weekend == dt_weekday(t) >= 5
                            is_holiday == dt_date(t) \in kr_holidays
                        IN  is_off_hour \/ is_weekend \/ is_holiday}}
    IN  Returned(d.columns,
                 sort_values(SelectRows(df_copy, mask),
                             <<COL_EMPLOYEE_ID, COL_ACCESS_TIME>>))

-----------------------------------------------------------------------------
(* Login rules: src/src/checkers/login_checker.py                          *)

COL_IP == "ip"
COL_EMPLOYEE_ID_LOGIN == "id_no"
LOGIN_IP_SWITCH_WINDOW_HOURS == 1
LOGIN_IP_SWITCH_MIN_IPS == 3
LOGIN_OFF_HOURS_START == 23
LOGIN_OFF_HOURS_END == 7

\* column labels of the login sheet: IP is the 10th
LOGIN_COLUMNS == <<"no", "id_no", "name", "dept", "time", "system", "menu", "kind",
                   "result", "ip">>

\* the same scan counting the logins of the window, not their addresses
RECURSIVE IpSwitchScan_logins(_, _)
IpSwitchScan_logins(group, i) ==
    IF i > Len(group) THEN {}
    ELSE LET current_login_time == group[i][COL_ACCESS_TIME]
             window_end_time ==
                 current_login_time + LOGIN_IP_SWITCH_WINDOW_HOURS * SECONDS_PER_HOUR
             logins_in_window ==
                 InWindow(group, COL_ACCESS_TIME, current_login_time, window_end_time)
         IN  (IF RowCount(logins_in_window) >= LOGIN_IP_SWITCH_MIN_IPS
              THEN IndexSet(logins_in_window) ELSE {})
             \cup IpSwitchScan_logins(group, i + 1)

\* the anchors i, i+1, ... of one time-sorted group: the index labels of the
\* windows whose logins come from at least LOGIN_IP_SWITCH_MIN_IPS addresses
RECURSIVE IpSwitchScan(_, _)
IpSwitchScan(group, i) ==
    IF i > Len(group) THEN {}
    ELSE LET current_login_time == group[i][COL_ACCESS_TIME]
             window_end_time ==
                 current_login_time + LOGIN_IP_SWITCH_WINDOW_HOURS * SECONDS_PER_HOUR
             logins_in_window ==
                 InWindow(group, COL_ACCESS_TIME, current_login_time, window_end_time)
         IN  (IF Cardinality(ColumnValues(logins_in_window, COL_IP)) >= LOGIN_IP_SWITCH_MIN_IPS
              THEN IndexSet(logins_in_window) ELSE {})
             \cup IpSwitchScan(group, i + 1)

_filter_ip_switch(d) ==
    IF d = None THEN Raise("ValueError") ELSE
    LET df_copy == pd_to_datetime(d.rows, COL_ACCESS_TIME)
        flagged_indices ==
            UNION {IpSwitchScan(sort_values(GroupRows(df_copy, COL_EMPLOYEE_ID_LOGIN, e),
                                            <<COL_ACCESS_TIME>>), 1) :
                   e \in ColumnValues(df_copy, COL_EMPLOYEE_ID_LOGIN)}
    IN  IF flagged_indices # {}
        THEN Returned(d.columns,
                      sort_values(SelectRows(df_copy, flagged_indices),
                                  <<COL_EMPLOYEE_ID_LOGIN, COL_ACCESS_TIME>>))
        ELSE Returned(d.columns, <<>>)

_filter_off_hours(d) ==
    IF d = None THEN Raise("ValueError") ELSE
    LET df_copy == pd_to_datetime(d.rows, COL_ACCESS_TIME)
        mask == {df_copy[i].index : i \in
                    {k \in 1..Len(df_copy) :
                        IsOffHour(df_copy[k][COL_ACCESS_TIME],
                                  LOGIN_OFF_HOURS_START, LOGIN_OFF_HOURS_END)}}
    IN  Returned(d.columns,
                 sort_values(SelectRows(df_copy, mask),
                             <<COL_EMPLOYEE_ID_LOGIN, COL_ACCESS_TIME>>))

_filter_holiday_and_weekend(d) ==
    IF d = None THEN Raise("ValueError") ELSE
    LET df_copy == pd_to_datetime(d.rows, COL_ACCESS_TIME)
        years == YearsOf(df_copy, COL_ACCESS_TIME)
        kr_holidays == holidays_KR(years)
    IN  IF NaT \in ColumnValues(df_copy, COL_ACCESS_TIME) THEN Raise("TypeError") ELSE
    LET
        mask == {df_copy[i].index : i \in
                    {k \in 1..Len(df_copy) :
                        LET is_weekend == dt_weekday(df_copy[k][COL_ACCESS_TIME]) >= 5
                            is_holiday == dt_date(df_copy[k][COL_ACCESS_TIME]) \in kr_holidays
                        IN  is_weekend \/ is_holiday}}
    IN  Returned(d.columns,
                 sort_values(SelectRows(df_copy, mask),
                             <<COL_EMPLOYEE_ID_LOGIN, COL_ACCESS_TIME>>))

-----------------------------------------------------------------------------
(* The shared time filter: src/src/utils.py                                *)

filter_by_time_conditions(d, time_col, employee_id_col, check_off_hours, check_holidays_weekends, off_hours_start, off_hours_end) ==
    IF d = None THEN Raise("ValueError") ELSE
    LET df_copy == d.rows
        off_mask == IF check_off_hours
                    THEN {df_copy[i].index : i \in
                             {k \in 1..Len(df_copy) :
                                 IsOffHour(df_copy[k][time_col], off_hours_start, off_hours_end)}}
                    ELSE {}
        years == YearsOf(df_copy, time_col)
        kr_holidays == holidays_KR(years)
    IN  IF check_holidays_weekends /\ NaT \in ColumnValues(df_copy, time_col)
        THEN Raise("TypeError") ELSE
    LET
        day_mask == IF check_holidays_weekends
                    THEN {df_copy[i].index : i \in
                             {k \in 1..Len(df_copy) :
                                 \/ dt_weekday(df_copy[k][time_col]) >= 5
                                 \/ dt_date(df_copy[k][time_col]) \in kr_holidays}}
                    ELSE {}
        final_mask == off_mask \cup day_mask
    IN  Returned(d.columns,
                 sort_values(SelectRows(df_copy, final_mask), <<employee_id_col, time_col>>))

-----------------------------------------------------------------------------
(* Personal-access rules: src/src/checkers/personal_file_checker.py        *)

COL_PROGRAM_NAME == "program"
COL_DETAIL_CONTENT == "detail"
COL_JOB_PERFORMANCE == "job"
COL_EMPLOYEE_NAME == "name"
HR_MASTER == "hr_master"
JOB_VIEW == "view"
JOB_SAVE == "save"
VIEW_THRESHOLD == 1000
SAVE_THRESHOLD == 100
SHEET_NAME_MAX_CHARS == 31

ACCESS_COLUMNS == <<"no", "emp", "name", "time", "program", "job", "detail">>

InColumns(col, columns) == \E i \in 1..Len(columns) : columns[i] = col

\* the employee-id column a personal-access rule reads, "" when there is none
EmployeeIdColumn(columns) ==
    IF InColumns(COL_EMPLOYEE_ID, columns) THEN COL_EMPLOYEE_ID
    ELSE IF InColumns(COL_EMPLOYEE_ID_LOGIN, columns) THEN COL_EMPLOYEE_ID_LOGIN
    ELSE ""

_filter_by_job_master_exclude_detail_id(d) ==
    LET employee_id_col_to_use == EmployeeIdColumn(d.columns)
    IN  IF employee_id_col_to_use = "" THEN Raise("ValueError")
        ELSE IF \E col \in {COL_PROGRAM_NAME, COL_ACCESS_TIME, COL_DETAIL_CONTENT} :
                    ~InColumns(col, d.columns)
        THEN Raise("ValueError")
        ELSE LET master == {d.rows[i].index : i \in
                               {k \in 1..Len(d.rows) : d.rows[k][COL_PROGRAM_NAME] = HR_MASTER}}
                 filtered_df == SelectRows(d.rows, master)
                 own == {filtered_df[i].index : i \in
                            {k \in 1..Len(filtered_df) :
                                py_in(py_str(IntV(filtered_df[k][employee_id_col_to_use])),
                                      py_str(filtered_df[k][COL_DETAIL_CONTENT]))}}
             IN  Returned(d.columns,
                          sort_values(SelectRows(filtered_df, master \ own),
                                      <<employee_id_col_to_use, COL_ACCESS_TIME>>))

\* the ascending list of a finite set of numbers (a groupby index, .tolist())
RECURSIVE Ascending(_)
Ascending(S) ==
    IF S = {} THEN <<>>
    ELSE LET m == CHOOSE x \in S : \A y \in S : x <= y
         IN  <<m>> \o Ascending(S \ {m})

Take(s, k) == SubSeq(s, 1, IF Len(s) < k THEN Len(s) ELSE k)

\* the same with the sheet name left as long as it comes
UserSheet_untruncated(d, employee_id_col_to_use, employee_id) ==
    LET user_all_records_df == GroupRows(d.rows, employee_id_col_to_use, employee_id)
        user_name == IF user_all_records_df # <<>>
                     THEN py_str(user_all_records_df[1][COL_EMPLOYEE_NAME])
                     ELSE <<>>
    IN  [employee_id |-> employee_id,
         sheet_name |-> py_str(IntV(employee_id)) \o <<"_">> \o user_name,
         rows |-> user_all_records_df]

\* the sheet written for one selected employee
UserSheet(d, employee_id_col_to_use, employee_id) ==
    LET user_all_records_df == GroupRows(d.rows, employee_id_col_to_use, employee_id)
        user_name == IF user_all_records_df # <<>>
                     THEN py_str(user_all_records_df[1][COL_EMPLOYEE_NAME])
                     ELSE <<>>
        sheet_name == py_str(IntV(employee_id)) \o <<"_">> \o user_name
    IN  [employee_id |-> employee_id,
         sheet_name |-> IF Len(sheet_name) > SHEET_NAME_MAX_CHARS
                        THEN Take(sheet_name, SHEET_NAME_MAX_CHARS) ELSE sheet_name,
         rows |-> user_all_records_df]

\* the same with each sheet holding the employee's records of that job only
_extract_and_save_by_job_only(d, job, threshold, job_column_name) ==
    LET employee_id_col_to_use == EmployeeIdColumn(d.columns)
    IN  IF employee_id_col_to_use = "" THEN [error |-> "ValueError", sheets |-> <<>>]
        ELSE IF \E col \in {COL_EMPLOYEE_NAME, job_column_name} : ~InColumns(col, d.columns)
        THEN [error |-> "ValueError", sheets |-> <<>>]
        ELSE LET job_rows == {k \in 1..Len(d.rows) : d.rows[k][job_column_name] = job}
                 job_specific_df == SelectRows(d.rows, {d.rows[k].index : k \in job_rows})
                 job_counts_per_user ==
                     [e \in ColumnValues(job_specific_df, employee_id_col_to_use) |->
                         RowCount(GroupRows(job_specific_df, employee_id_col_to_use, e))]
                 target_user_ids ==
                     Ascending({e \in DOMAIN job_counts_per_user :
                                   job_counts_per_user[e] >= threshold})
             IN  [error |-> "none",
                  sheets |-> [i \in 1..Len(target_user_ids) |->
                                 UserSheet(Frame(d.columns, job_specific_df),
                                           employee_id_col_to_use, target_user_ids[i])]]

\* What _extract_and_save_by_job puts into the workbook at save_path: one
\* sheet per selected employee; no sheet means the function returned before
\* opening the workbook.
_extract_and_save_by_job(d, job, threshold, job_column_name) ==
    LET employee_id_col_to_use == EmployeeIdColumn(d.columns)
    IN  IF employee_id_col_to_use = "" THEN [error |-> "ValueError", sheets |-> <<>>]
        ELSE IF \E col \in {COL_EMPLOYEE_NAME, job_column_name} : ~InColumns(col, d.columns)
        THEN [error |-> "ValueError", sheets |-> <<>>]
        ELSE LET job_rows == {k \in 1..Len(d.rows) : d.rows[k][job_column_name] = job}
                 job_specific_df == SelectRows(d.rows, {d.rows[k].index : k \in job_rows})
                 job_counts_per_user ==
                     [e \in ColumnValues(job_specific_df, employee_id_col_to_use) |->
                         RowCount(GroupRows(job_specific_df, employee_id_col_to_use, e))]
                 target_user_ids ==
                     Ascending({e \in DOMAIN job_counts_per_user :
                                   job_counts_per_user[e] >= threshold})
             IN  [error |-> "none",
                  sheets |-> [i \in 1..Len(target_user_ids) |->
                                 UserSheet(d, employee_id_col_to_use, target_user_ids[i])]]

-----------------------------------------------------------------------------
(* Input tables                                                            *)

MaxRuns == 3        \* longest table of a theme whose rule groups rows
MaxLocalRuns == 2   \* longest table of a theme whose rule looks at one row
MaxLoginRuns == 4   \* longest table of the IP-switch theme
MaxHourRuns == 1    \* longest table of an hours-of-the-day theme

\* all sequences over S of length lo..hi
SeqsOf(S, lo, hi) == UNION {[1..m -> S] : m \in lo..hi}

\* Monday 2024-03-04 10:00:00, a working day inside working hours
T0 == At(2024, 3, 4, 10, 0, 0)

\* one instant in every hour of that Monday
HourInstants == {At(2024, 3, 4, h, IF h \in {6, 7, 22} THEN 59 ELSE 0,
                    IF h \in {6, 7, 22} THEN 59 ELSE 0) : h \in 0..23}

\* 10:00 on: a plain Monday, a Saturday, a Sunday, a holiday of 2024
\* (Wednesday 2024-05-15) and the same date in 2025, a working Thursday, and
\* a holiday of 2025 (Wednesday 2025-01-29); and 23:00 on the Saturday
DayInstants == {At(2024, 3, 4, 10, 0, 0), At(2024, 3, 9, 10, 0, 0), At(2024, 3, 10, 10, 0, 0),
                At(2024, 5, 15, 10, 0, 0), At(2025, 5, 15, 10, 0, 0),
                At(2025, 1, 29, 10, 0, 0), At(2024, 3, 9, 23, 0, 0)}

WindowInstants == {T0, T0 + SECONDS_PER_HOUR, T0 + SECONDS_PER_HOUR + 1}

Text(chars) == StrV(chars)
PlainReason == Text(<<"a", "u", "d", "i", "t", " ", "Q", "3">>)

Reasons == {NaN, Text(<<>>), Text(<<"a", "a", "a">>), Text(<<"a", "b", "c", "d", "e">>),
            Text(<<"a", "b", "c", "d", "e", "f">>),
            Text(<<"1", "2", "3", "1", "2", "3", "1", "2", "3", "1", "2", "3">>),
            IntV(112233), IntV(1234567), PlainReason}

DownloadCell(emp, t, reason, count, n) ==
    [n |-> n, emp |-> emp, time |-> t, reason |-> reason, count |-> count]

DownloadThemes ==
    <<  \* bursts: one employee around the window boundary, a second employee
        [cells |-> {DownloadCell(1, t, PlainReason, 1, n) : t \in WindowInstants, n \in {1, 19}}
                   \cup {DownloadCell(2, T0, PlainReason, 1, n) : n \in {1, 19}},
         hi |-> MaxRuns],
        \* volumes: record counts that add up to just below and to the threshold
        [cells |-> {DownloadCell(1, T0, PlainReason, 5, n) : n \in {1, 19, 20}}
                   \cup {DownloadCell(1, T0, PlainReason, 0, 1)}
                   \cup {DownloadCell(2, T0, PlainReason, 5, n) : n \in {1, 20}},
         hi |-> MaxRuns],
        \* justifications
        [cells |-> {DownloadCell(1, T0, r, 1, 1) : r \in Reasons}
                   \cup {DownloadCell(2, T0, r, 1, 1) : r \in {NaN, Text(<<"a", "a", "a">>)}},
         hi |-> MaxLocalRuns],
        \* hours of the day
        [cells |-> {DownloadCell(1, t, PlainReason, 1, 1) : t \in HourInstants},
         hi |-> MaxHourRuns],
        \* days of two years
        [cells |-> {DownloadCell(1, t, PlainReason, 1, 1) : t \in DayInstants},
         hi |-> MaxRuns] >>

\* the frame read from the sheet: index labels 0, 1, ... in sheet order
Labelled(cells) == [i \in 1..Len(cells) |-> [index |-> i - 1] @@ cells[i]]

\* 25 downloads of 5 records each by one employee within 50 minutes
DownloadScenario ==
    <<DownloadCell(1, T0, PlainReason, 5, 24), DownloadCell(1, T0 + 3000, PlainReason, 5, 1)>>

DownloadTables ==
    {Frame(DOWNLOAD_COLUMNS, Labelled(c)) :
        c \in UNION {SeqsOf(DownloadThemes[k].cells, 1, DownloadThemes[k].hi) :
                        k \in 1..Len(DownloadThemes)} \cup {DownloadScenario}}

LoginCell(emp, t, ip) == [n |-> 1, id_no |-> emp, time |-> t, ip |-> ip]

LoginThemes ==
    <<  \* addresses of one employee around the window boundary
        [cells |-> {LoginCell(1, T0, ip) : ip \in {"A", "B", "C"}}
                   \cup {LoginCell(1, t, "C") : t \in WindowInstants \ {T0}},
         hi |-> MaxLoginRuns],
        \* two employees at the same time
        [cells |-> {LoginCell(e, T0, ip) : e \in {1, 2}, ip \in {"A", "B", "C"}},
         hi |-> MaxRuns],
        [cells |-> {LoginCell(1, t, "A") : t \in HourInstants}, hi |-> MaxHourRuns],
        [cells |-> {LoginCell(1, t, "A") : t \in DayInstants}, hi |-> MaxRuns] >>

\* logins from A, B, C within 45 minutes and a fourth from A two hours later
LoginScenario ==
    <<LoginCell(2, T0, "A"), LoginCell(2, T0 + 1200, "B"), LoginCell(2, T0 + 2700, "C"),
      LoginCell(2, T0 + 2700 + 2 * SECONDS_PER_HOUR, "A")>>

LoginTables ==
    {Frame(LOGIN_COLUMNS, Labelled(c)) :
        c \in UNION {SeqsOf(LoginThemes[k].cells, 0, LoginThemes[k].hi) :
                        k \in 1..Len(LoginThemes)} \cup {LoginScenario}}

ShortName == Text(<<"k", "i", "m">>)
LongName == Text([i \in 1..34 |-> "x"])

AccessCell(emp, program, job, detail, name, n) ==
    [n |-> n, emp |-> emp, time |-> T0, program |-> program, job |-> job,
     detail |-> detail, name |-> name]

Details == {NaN, Text(<<"x", "y">>), Text(<<"x", "1", "2", "y">>), Text(<<"x", "3", "y">>),
            Text(<<"x", "1", "2", "3", "y">>), Text(<<"1", "2", " ", "b", "y", " ", "3">>)}

AccessThemes ==
    <<  \* volumes of views and saves
        [cells |-> {AccessCell(12, "other", JOB_VIEW, NaN, ShortName, n) : n \in {1, 999}}
                   \cup {AccessCell(12, "other", JOB_SAVE, NaN, ShortName, n) : n \in {1, 99}}
                   \cup {AccessCell(12, "other", "print", NaN, ShortName, 1)}
                   \cup {AccessCell(3, "other", JOB_VIEW, NaN, LongName, 1000),
                         AccessCell(3, "other", JOB_SAVE, NaN, LongName, 99),
                         AccessCell(3, "other", "print", NaN, NaN, 1)},
         hi |-> MaxRuns],
        \* look-ups in the HR master and elsewhere
        [cells |-> {AccessCell(e, HR_MASTER, JOB_VIEW, d, ShortName, 1) :
                       e \in {12, 3}, d \in Details}
                   \cup {AccessCell(12, "other", JOB_VIEW, d, ShortName, 1) :
                            d \in {Text(<<"x", "y">>), Text(<<"x", "1", "2", "y">>)}},
         hi |-> MaxLocalRuns],
        \* views at two instants, as files merged in directory order present them
        [cells |-> {[AccessCell(12, "other", JOB_VIEW, NaN, ShortName, n) EXCEPT !.time = t] :
                       t \in {T0, T0 + SECONDS_PER_HOUR}, n \in {1, 1000}},
         hi |-> MaxLocalRuns] >>

AccessTables ==
    {Frame(ACCESS_COLUMNS, Labelled(c)) :
        c \in UNION {SeqsOf(AccessThemes[k].cells, 1, AccessThemes[k].hi) :
                        k \in 1..Len(AccessThemes)}}

-----------------------------------------------------------------------------
(* The family runs                                                         *)

PREV_MONTH == "202610"

DOWNLOAD_REASON_REPORT_BASE == "[att4] download reason"
DOWNLOAD_REASON_INVALID_REASON_SUFFIX == "bad reason"
DOWNLOAD_REASON_HIGH_DOWNLOAD_COUNT_SUFFIX == "over 100"
DOWNLOAD_REASON_HIGH_FREQUENCY_SUFFIX == "over 20 in 1 hour"
DOWNLOAD_REASON_OFF_HOURS_SUFFIX == "off hours"
LOGIN_CHECK_REPORT_BASE == "[att2] access record check"
LOGIN_REPORT_IP_SWITCH_SUFFIX == "60 min IP"
LOGIN_REPORT_OFF_HOURS_SUFFIX == "off hours"
LOGIN_REPORT_HOLIDAY_SUFFIX == "holiday"
MERGED_PERSONAL_INFO_ACCESS_BASE == "[att3] access record_"
PERSONAL_INFO_ACCESS_MASTER_SUFFIX == "hr master"
PERSONAL_INFO_ACCESS_HIGH_VOLUME_VIEWS_SUFFIX == "1000 views"
PERSONAL_INFO_ACCESS_HIGH_VOLUME_SAVES_SUFFIX == "100 saves"

\* a name made of the suffix and the month, without the base of the family
ReportPath_suffix(base, suffix) == "(" \o suffix \o ")_" \o PREV_MONTH \o ".xlsx"

\* f"{base}({suffix})_{prev_month}.xlsx"
ReportPath(base, suffix) == base \o "(" \o suffix \o ")_" \o PREV_MONTH \o ".xlsx"
\* f"{base}_{prev_month}.xlsx", the copy of the merged input
MergedPath(base) == base \o "_" \o PREV_MONTH \o ".xlsx"
\* TEMPLATE.split(".")[0].format(prev_month) + f"({suffix}).xlsx"
AccessReportPath(suffix) ==
    MERGED_PERSONAL_INFO_ACCESS_BASE \o PREV_MONTH \o "(" \o suffix \o ").xlsx"

SayuRules == <<"_check_download_sayu", "_filter_high_download_users",
               "_filter_high_freq_download", "_filter_off_hour_and_holiday">>
LoginRules == <<"_filter_ip_switch", "_filter_off_hours", "_filter_holiday_and_weekend">>
AccessRules == <<"_filter_by_job_master_exclude_detail_id", "_extract_and_save_by_job:view",
                 "_extract_and_save_by_job:save">>

Rules == {SayuRules[i] : i \in 1..Len(SayuRules)} \cup {LoginRules[i] : i \in 1..Len(LoginRules)}
         \cup {AccessRules[i] : i \in 1..Len(AccessRules)}

NotRun == [error |-> "not run"]

Init ==
    /\ pc = "idle"
    /\ df = None
    /\ results = [r \in Rules |-> NotRun]
    /\ calls = <<>>
    /\ files = {}
    /\ main = [at |-> "start", log |-> <<>>, total |-> [tag |-> "None", v |-> 0]]
    /\ download_dir = <<>>

\* the same with the rule function working on the table itself instead of
\* on a copy: what the rule selected is what is left of the table
RuleStep_inplace(rule, given, r, save_path, next) ==
    /\ results' = [results EXCEPT ![rule] = r]
    /\ calls' = Append(calls, [rule |-> rule, given |-> given])
    /\ df' = IF r.error = "none" THEN Frame(df.columns, r.rows) ELSE df
    /\ UNCHANGED <<main, download_dir>>
    /\ IF r.error # "none"
       THEN pc' = "raised" /\ files' = files
       ELSE IF r.rows # <<>>
       THEN \/ pc' = next /\ files' = files \cup {save_path}
            \/ pc' = "raised" /\ files' = files
            \/ pc' = "raised" /\ files' = files \cup {save_path}
       ELSE pc' = next /\ files' = files

\* One rule of a family run: call the rule function on the table given, and
\* write its report when the result has rows.  An exception of the rule or of
\* save_excel_with_autofit leaves the family function; the writer may fail
\* before it has created the file (to_excel) or after (load_workbook, save).
RuleStep(rule, given, r, save_path, next) ==
    /\ results' = [results EXCEPT ![rule] = r]
    /\ calls' = Append(calls, [rule |-> rule, given |-> given])
    /\ df' = df
    /\ UNCHANGED <<main, download_dir>>
    /\ IF r.error # "none"
       THEN pc' = "raised" /\ files' = files
       ELSE IF r.rows # <<>>
       THEN \/ pc' = next /\ files' = files \cup {save_path}
            \/ pc' = "raised" /\ files' = files
            \/ pc' = "raised" /\ files' = files \cup {save_path}
       ELSE pc' = next /\ files' = files

\* sayu_checker --------------------------------------------------------------

sayu_acquire ==
    /\ pc = "idle"
    /\ \/ \E t \in DownloadTables :
             /\ df' = t
             /\ files' = files \cup {MergedPath(DOWNLOAD_REASON_REPORT_BASE)}
             /\ pc' = "sayu_1"
       \/ df' = None /\ files' = files /\ pc' = "raised"
    /\ UNCHANGED <<results, calls, main, download_dir>>

sayu_invalid_reason ==
    /\ pc = "sayu_1"
    /\ RuleStep(SayuRules[1], df, _check_download_sayu(df),
                ReportPath(DOWNLOAD_REASON_REPORT_BASE, DOWNLOAD_REASON_INVALID_REASON_SUFFIX),
                "sayu_2")

\* the second rule fed with what the first rule returned
sayu_high_download_chained ==
    /\ pc = "sayu_2"
    /\ LET given == Frame(df.columns, results[SayuRules[1]].rows)
       IN  RuleStep(SayuRules[2], given, _filter_high_download_users(given),
                    ReportPath(DOWNLOAD_REASON_REPORT_BASE,
                               DOWNLOAD_REASON_HIGH_DOWNLOAD_COUNT_SUFFIX),
                    "sayu_3")

sayu_high_download ==
    /\ pc = "sayu_2"
    /\ RuleStep(SayuRules[2], df, _filter_high_download_users(df),
                ReportPath(DOWNLOAD_REASON_REPORT_BASE,
                           DOWNLOAD_REASON_HIGH_DOWNLOAD_COUNT_SUFFIX),
                "sayu_3")

sayu_high_freq ==
    /\ pc = "sayu_3"
    /\ RuleStep(SayuRules[3], df, _filter_high_freq_download(df),
                ReportPath(DOWNLOAD_REASON_REPORT_BASE, DOWNLOAD_REASON_HIGH_FREQUENCY_SUFFIX),
                "sayu_4")

sayu_off_hours_holiday ==
    /\ pc = "sayu_4"
    /\ RuleStep(SayuRules[4], df, _filter_off_hour_and_holiday(df),
                ReportPath(DOWNLOAD_REASON_REPORT_BASE, DOWNLOAD_REASON_OFF_HOURS_SUFFIX),
                "returned")

\* login_checker -------------------------------------------------------------

login_acquire ==
    /\ pc = "idle"
    /\ \/ \E t \in LoginTables :
             /\ df' = t
             /\ files' = files \cup {MergedPath(LOGIN_CHECK_REPORT_BASE)}
             /\ pc' = IF Len(t.columns) >= 10 /\ t.columns[10] = COL_IP
                      THEN "login_1" ELSE "raised"
       \/ df' = None /\ files' = files /\ pc' = "raised"
    /\ UNCHANGED <<results, calls, main, download_dir>>

login_ip_switch ==
    /\ pc = "login_1"
    /\ RuleStep(LoginRules[1], df, _filter_ip_switch(df),
                ReportPath(LOGIN_CHECK_REPORT_BASE, LOGIN_REPORT_IP_SWITCH_SUFFIX), "login_2")

login_off_hours ==
    /\ pc = "login_2"
    /\ RuleStep(LoginRules[2], df, _filter_off_hours(df),
                ReportPath(LOGIN_CHECK_REPORT_BASE, LOGIN_REPORT_OFF_HOURS_SUFFIX), "login_3")

login_holiday_weekend ==
    /\ pc = "login_3"
    /\ RuleStep(LoginRules[3], df, _filter_holiday_and_weekend(df),
                ReportPath(LOGIN_CHECK_REPORT_BASE, LOGIN_REPORT_HOLIDAY_SUFFIX), "returned")

\* personal_file_checker -----------------------------------------------------

\* One view/save-volume rule: _extract_and_save_by_job opens the workbook
\* only when some employee is selected.
JobStep(rule, given, r, save_path, next) ==
    /\ results' = [results EXCEPT ![rule] = r]
    /\ calls' = Append(calls, [rule |-> rule, given |-> given])
    /\ df' = df
    /\ UNCHANGED <<main, download_dir>>
    /\ IF r.error # "none"
       THEN pc' = "raised" /\ files' = files
       ELSE IF r.sheets # <<>>
       THEN \/ pc' = next /\ files' = files \cup {save_path}
            \/ pc' = "raised" /\ files' = files
            \/ pc' = "raised" /\ files' = files \cup {save_path}
       ELSE pc' = next /\ files' = files

access_acquire ==
    /\ pc = "idle"
    /\ \/ \E t \in AccessTables : df' = t /\ pc' = "access_1"
       \/ df' = None /\ pc' = "raised"
    /\ UNCHANGED <<results, calls, files, main, download_dir>>

access_master ==
    /\ pc = "access_1"
    /\ RuleStep(AccessRules[1], df, _filter_by_job_master_exclude_detail_id(df),
                AccessReportPath(PERSONAL_INFO_ACCESS_MASTER_SUFFIX), "access_2")

access_views ==
    /\ pc = "access_2"
    /\ JobStep(AccessRules[2], df,
               _extract_and_save_by_job(df, JOB_VIEW, VIEW_THRESHOLD, COL_JOB_PERFORMANCE),
               AccessReportPath(PERSONAL_INFO_ACCESS_HIGH_VOLUME_VIEWS_SUFFIX), "access_3")

access_saves ==
    /\ pc = "access_3"
    /\ JobStep(AccessRules[3], df,
               _extract_and_save_by_job(df, JOB_SAVE, SAVE_THRESHOLD, COL_JOB_PERFORMANCE),
               AccessReportPath(PERSONAL_INFO_ACCESS_HIGH_VOLUME_SAVES_SUFFIX), "returned")

Next ==
    \/ sayu_acquire \/ sayu_invalid_reason \/ sayu_high_download \/ sayu_high_freq
    \/ sayu_off_hours_holiday
    \/ login_acquire \/ login_ip_switch \/ login_off_hours \/ login_holiday_weekend
    \/ access_acquire \/ access_master \/ access_views \/ access_saves

Spec == Init /\ [][Next]_vars

-----------------------------------------------------------------------------
(* Properties                                                              *)

HasRun(rule) == results[rule].error = "none"
Flagged(rule) == IndexSet(results[rule].rows)
EachOnce(rule) == Len(results[rule].rows) = Cardinality(Flagged(rule))
Pos(d) == 1..Len(d.rows)

\* number of sheet rows at the positions S
RECURSIVE RunTotal(_, _)
RunTotal(rows, S) ==
    IF S = {} THEN 0
    ELSE LET k == CHOOSE x \in S : TRUE IN rows[k].n + RunTotal(rows, S \ {k})

\* records downloaded at the positions S
RECURSIVE RecordTotal(_, _)
RecordTotal(rows, S) ==
    IF S = {} THEN 0
    ELSE LET k == CHOOSE x \in S : TRUE
         IN  rows[k].n * rows[k].count + RecordTotal(rows, S \ {k})

\* the positions of the events of a's employee inside [t_a, t_a + 1 hour]
HourFrom(rows, empcol, a) ==
    {x \in 1..Len(rows) : /\ rows[x][empcol] = rows[a][empcol]
                          /\ rows[a].time <= rows[x].time
                          /\ rows[x].time <= rows[a].time + 3600}

\* the anchors whose window holds at least 20 downloads
BurstAnchors(rows) == {a \in 1..Len(rows) : RunTotal(rows, HourFrom(rows, "emp", a)) >= 20}

\* the anchors whose window holds logins from at least 3 addresses
SwitchAnchors(rows) ==
    {a \in 1..Len(rows) : Cardinality({rows[x].ip : x \in HourFrom(rows, "id_no", a)}) >= 3}

\* the index labels of the events that lie in the window of some anchor of Q
Covered(rows, empcol, Q) ==
    {rows[e].index : e \in {x \in 1..Len(rows) : \E a \in Q : x \in HourFrom(rows, empcol, a)}}

C2_IpSwitchRule ==
    HasRun("_filter_ip_switch") =>
        /\ Flagged("_filter_ip_switch") = Covered(df.rows, "id_no", SwitchAnchors(df.rows))
        /\ EachOnce("_filter_ip_switch")

\* three addresses within the hour were flagged and a fourth login of the
\* same employee, two hours later, was not
C2_Witness ==
    /\ HasRun("_filter_ip_switch")
    /\ Cardinality(Flagged("_filter_ip_switch")) = 3
    /\ \E e, f \in Pos(df) :
          /\ df.rows[e].id_no = df.rows[f].id_no
          /\ df.rows[f].time >= df.rows[e].time + 2 * 3600
          /\ df.rows[e].index \in Flagged("_filter_ip_switch")
          /\ df.rows[f].index \notin Flagged("_filter_ip_switch")

\* For anchors a and events e of one employee: an event exactly one hour
\* after a qualifying anchor is flagged, and an event one second later is
\* flagged only through the window of a later anchor.
ClosedBoundary(rows, empcol, Q, flagged) ==
    \A a, e \in 1..Len(rows) :
        rows[a][empcol] = rows[e][empcol] =>
            /\ (rows[e].time = rows[a].time + 3600 /\ a \in Q) => rows[e].index \in flagged
            /\ (rows[e].time = rows[a].time + 3601 /\ rows[e].index \in flagged) =>
                   \E b \in Q : /\ rows[b][empcol] = rows[a][empcol]
                                /\ rows[b].time > rows[a].time
                                /\ rows[b].time <= rows[e].time

\* C3: in both windowed rules the window of an anchor is closed at both
\* ends: the event at exactly t_a + 1h is counted in and flagged with the
\* window of a, the event at t_a + 1h + 1s is not part of that window.
C3_WindowBoundary ==
    /\ HasRun("_filter_high_freq_download") =>
           ClosedBoundary(df.rows, "emp", BurstAnchors(df.rows),
                          Flagged("_filter_high_freq_download"))
    /\ HasRun("_filter_ip_switch") =>
           ClosedBoundary(df.rows, "id_no", SwitchAnchors(df.rows),
                          Flagged("_filter_ip_switch"))

\* 19 downloads and a 20th exactly one hour later were flagged together,
\* a 21st one second after that was not
C3_Witness ==
    /\ HasRun("_filter_high_freq_download")
    /\ \E a, e, f \in Pos(df) :
          /\ df.rows[a].emp = df.rows[e].emp /\ df.rows[a].emp = df.rows[f].emp
          /\ df.rows[e].time = df.rows[a].time + 3600
          /\ df.rows[f].time = df.rows[a].time + 3601
          /\ RunTotal(df.rows, {x \in Pos(df) : df.rows[x].emp = df.rows[a].emp
                                                /\ df.rows[x].time = df.rows[a].time}) = 19
          /\ df.rows[a].index \in Flagged("_filter_high_freq_download")
          /\ df.rows[e].index \in Flagged("_filter_high_freq_download")
          /\ df.rows[f].index \notin Flagged("_filter_high_freq_download")

\* the positions of all events of the employee of position a
EventsOf(rows, empcol, a) == {x \in 1..Len(rows) : rows[x][empcol] = rows[a][empcol]}

JobCount(rows, empcol, e, job) ==
    RunTotal(rows, {x \in 1..Len(rows) : rows[x][empcol] = e /\ rows[x].job = job})

\* the employees with at least threshold events of the target job
Selected(rows, empcol, job, threshold) ==
    {e \in {rows[x][empcol] : x \in 1..Len(rows)} : JobCount(rows, empcol, e, job) >= threshold}

\* the groups of a volume rule: one per selected employee and no other, each
\* holding every event of its employee once
VolumeGroups(rule, job, threshold) ==
    HasRun(rule) =>
        LET sheets == results[rule].sheets
        IN  /\ {sheets[i].employee_id : i \in DOMAIN sheets} =
                   Selected(df.rows, "emp", job, threshold)
            /\ Len(sheets) = Cardinality(Selected(df.rows, "emp", job, threshold))
            /\ \A i \in DOMAIN sheets :
                  /\ IndexSet(sheets[i].rows) =
                         {df.rows[x].index : x \in
                             {y \in Pos(df) : df.rows[y].emp = sheets[i].employee_id}}
                  /\ Len(sheets[i].rows) = Cardinality(IndexSet(sheets[i].rows))

DistinctChars(x) == Cardinality({py_str(x)[i] : i \in 1..Len(py_str(x))})

\* C6: once _check_download_sayu has run, an event is in its result exactly
\* when its justification is not missing and the string form of it has at
\* most 5 distinct characters; a missing justification is never flagged.
C6_LowEntropyRule ==
    HasRun("_check_download_sayu") =>
        /\ Flagged("_check_download_sayu") =
               {df.rows[e].index : e \in
                   {x \in Pos(df) : /\ df.rows[x].reason # NaN
                                    /\ DistinctChars(df.rows[x].reason) <= 5}}
        /\ EachOnce("_check_download_sayu")

\* a justification of exactly 5 distinct characters was flagged next to a
\* missing one that was not
C6_Witness ==
    /\ HasRun("_check_download_sayu")
    /\ \E e, f \in Pos(df) :
          /\ DistinctChars(df.rows[e].reason) = 5
          /\ df.rows[e].index \in Flagged("_check_download_sayu")
          /\ df.rows[f].reason = NaN
          /\ df.rows[f].index \notin Flagged("_check_download_sayu")

\* needle occurs somewhere in hay
Contains(hay, needle) ==
    \E i \in 0..Len(hay), j \in 0..Len(hay) : i <= j /\ SubSeq(hay, i + 1, j) = needle

\* C7: once _filter_by_job_master_exclude_detail_id has run, an event is in
\* its result exactly when its program is the HR master and the string form
\* of its employee id occurs nowhere in the string form of its detail text.
C7_SelfLookupExclusion ==
    HasRun("_filter_by_job_master_exclude_detail_id") =>
        /\ Flagged("_filter_by_job_master_exclude_detail_id") =
               {df.rows[e].index : e \in
                   {x \in Pos(df) :
                       /\ df.rows[x].program = "hr_master"
                       /\ ~Contains(py_str(df.rows[x].detail), py_str(IntV(df.rows[x].emp)))}}
        /\ EachOnce("_filter_by_job_master_exclude_detail_id")

\* an HR-master look-up whose detail names another employee was flagged and
\* one whose detail holds the actor's own id after other text was left out
C7_Witness ==
    /\ HasRun("_filter_by_job_master_exclude_detail_id")
    /\ \E e, f \in Pos(df) :
          /\ df.rows[e].program = "hr_master"
          /\ df.rows[e].detail # NaN
          /\ df.rows[e].index \in Flagged("_filter_by_job_master_exclude_detail_id")
          /\ df.rows[f].program = "hr_master"
          /\ py_str(df.rows[f].detail)[1] # py_str(IntV(df.rows[f].emp))[1]
          /\ df.rows[f].index \notin Flagged("_filter_by_job_master_exclude_detail_id")

\* the hour of the day of an instant
HourOf(t) == (t % 86400) \div 3600

\* the public holidays of the two years the inputs lie in
PublicHolidays == KRYear(2024) \cup KRYear(2025)
\* a day that is neither a weekend day nor a public holiday
WorkingDay(t) == dt_weekday(t) < 5 /\ dt_date(t) \notin PublicHolidays

HolidaysOfYear == [y \in {2024, 2025} |-> KRYear(y)]
\* a weekend day, or a public holiday of the year the instant itself lies in
DayOff(t) ==
    \/ dt_weekday(t) >= 5
    \/ dt_date(t) \in (IF dt_year(t) \in DOMAIN HolidaysOfYear THEN HolidaysOfYear[dt_year(t)]
                                                              ELSE KRYear(dt_year(t)))

\* C9: in a batch with several years the holiday test uses the union of the
\* holiday sets of all years present: an event is classified by the holidays
\* of its own year, whichever other years the batch holds.  This is so in
\* _filter_holiday_and_weekend, _filter_off_hour_and_holiday and
\* filter_by_time_conditions.
C9_MultiYearHolidays ==
    /\ HasRun("_filter_holiday_and_weekend") =>
           \A x \in Pos(df) :
               df.rows[x].index \in Flagged("_filter_holiday_and_weekend")
                   <=> DayOff(df.rows[x].time)
    /\ HasRun("_filter_off_hour_and_holiday") =>
           \A x \in Pos(df) :
               df.rows[x].index \in Flagged("_filter_off_hour_and_holiday")
                   <=> (DayOff(df.rows[x].time) \/ HourOf(df.rows[x].time) \in {23} \cup 0..7)
    /\ (df # None /\ calls = <<>>) =>
           LET r == filter_by_time_conditions(df, "time", EmployeeIdColumn(df.columns),
                                              FALSE, TRUE, 23, 7)
           IN  /\ r.error = "none"
               /\ \A x \in Pos(df) :
                      df.rows[x].index \in IndexSet(r.rows) <=> DayOff(df.rows[x].time)

\* in one batch a holiday of 2024 and a holiday of 2025 were both flagged,
\* and the 2025 day with the date of the 2024 holiday was not
C9_Witness ==
    /\ HasRun("_filter_holiday_and_weekend")
    /\ \E e, f, g \in Pos(df) :
          /\ dt_year(df.rows[e].time) = 2024 /\ dt_weekday(df.rows[e].time) < 5
          /\ dt_year(df.rows[f].time) = 2025 /\ dt_weekday(df.rows[f].time) < 5
          /\ df.rows[e].index \in Flagged("_filter_holiday_and_weekend")
          /\ df.rows[f].index \in Flagged("_filter_holiday_and_weekend")
          /\ df.rows[g].time = df.rows[e].time + 365 * 86400
          /\ df.rows[g].index \notin Flagged("_filter_holiday_and_weekend")

\* the names of the rules invoked so far, in order
CallNames == [i \in 1..Len(calls) |-> calls[i].rule]

IsPrefix(s, t) == Len(s) <= Len(t) /\ \A i \in 1..Len(s) : s[i] = t[i]

\* what a rule returns for the table d, whatever ran before it
RuleOn(rule, d) ==
    CASE rule = "_check_download_sayu" -> _check_download_sayu(d)
      [] rule = "_filter_high_download_users" -> _filter_high_download_users(d)
      [] rule = "_filter_high_freq_download" -> _filter_high_freq_download(d)
      [] rule = "_filter_off_hour_and_holiday" -> _filter_off_hour_and_holiday(d)
      [] rule = "_filter_ip_switch" -> _filter_ip_switch(d)
      [] rule = "_filter_off_hours" -> _filter_off_hours(d)
      [] rule = "_filter_holiday_and_weekend" -> _filter_holiday_and_weekend(d)
      [] rule = "_filter_by_job_master_exclude_detail_id" ->
             _filter_by_job_master_exclude_detail_id(d)
      [] rule = "_extract_and_save_by_job:view" ->
             _extract_and_save_by_job(d, "view", 1000, "job")
      [] rule = "_extract_and_save_by_job:save" ->
             _extract_and_save_by_job(d, "save", 100, "job")

\* C10: in a family run the rules are invoked in the declared order of the
\* family (download: low-entropy reason, sum threshold, high frequency,
\* off-hours/holiday; login: IP switch, off-hours, holiday/weekend; access:
\* HR-master look-up, view volume, save volume), each one is given the full
\* table the run acquired, and what it returns is what it returns for that
\* table alone, whatever the earlier rules returned.
C10_FixedOrderSameTable ==
    /\ \/ IsPrefix(CallNames, <<"_check_download_sayu", "_filter_high_download_users",
                               "_filter_high_freq_download", "_filter_off_hour_and_holiday">>)
       \/ IsPrefix(CallNames, <<"_filter_ip_switch", "_filter_off_hours",
                               "_filter_holiday_and_weekend">>)
       \/ IsPrefix(CallNames, <<"_filter_by_job_master_exclude_detail_id",
                               "_extract_and_save_by_job:view",
                               "_extract_and_save_by_job:save">>)
    /\ pc = "returned" => Len(calls) \in {3, 4} /\ (Len(calls) = 4 <=> df.columns = DOWNLOAD_COLUMNS)
    /\ \A i \in 1..Len(calls) :
          /\ calls[i].given = df
          /\ results[calls[i].rule] = RuleOn(calls[i].rule, df)
    /\ \A rule \in Rules : results[rule] # NotRun => \E i \in 1..Len(calls) : calls[i].rule = rule

\* a download run went through all four rules after the second one had
\* fired, and the third one fired on the full table as well
C10_Witness ==
    /\ pc = "returned"
    /\ Len(calls) = 4
    /\ results["_check_download_sayu"].rows = <<>>
    /\ results["_filter_high_download_users"].rows # <<>>
    /\ Len(results["_filter_high_download_users"].rows) < Len(df.rows)
    /\ results["_filter_high_freq_download"].rows # <<>>

-----------------------------------------------------------------------------
(* The family runs of src/src/mode: login_checker and                      *)
(* personal_file_checker as src/src/mode/login_checker.py and              *)
(* src/src/mode/personal_file_checker.py have them.  Their rule functions  *)
(* compute what the functions of the same names under src/src/checkers     *)
(* compute; the runs differ in when they write a report.                   *)

\* One rule of mode/login_checker.py: the result is handed to
\* save_excel_with_autofit whether it has rows or not.
mode_RuleStep(rule, given, r, save_path, next) ==
    /\ results' = [results EXCEPT ![rule] = r]
    /\ calls' = Append(calls, [rule |-> rule, given |-> given])
    /\ df' = df
    /\ UNCHANGED <<main, download_dir>>
    /\ IF r.error # "none"
       THEN pc' = "raised" /\ files' = files
       ELSE \/ pc' = next /\ files' = files \cup {save_path}
            \/ pc' = "raised" /\ files' = files
            \/ pc' = "raised" /\ files' = files \cup {save_path}

\* no file with the prefix; a file copied that cannot be read; a table
mode_login_acquire ==
    /\ pc = "idle"
    /\ \/ df' = None /\ files' = files /\ pc' = "raised"
       \/ df' = None /\ files' = files \cup {"[att2] access record check_" \o PREV_MONTH \o ".xls"} /\ pc' = "raised"
       \/ \E t \in LoginTables :
             /\ df' = t
             /\ files' = files \cup {"[att2] access record check_" \o PREV_MONTH \o ".xls"}
             /\ pc' = IF Len(t.columns) >= 10 /\ t.columns[10] = COL_IP
                      THEN "login_1" ELSE "raised"
    /\ UNCHANGED <<results, calls, main, download_dir>>

mode_login_ip_switch ==
    /\ pc = "login_1"
    /\ mode_RuleStep(LoginRules[1], df, _filter_ip_switch(df),
                     ReportPath(LOGIN_CHECK_REPORT_BASE, LOGIN_REPORT_IP_SWITCH_SUFFIX),
                     "login_2")

mode_login_off_hours ==
    /\ pc = "login_2"
    /\ mode_RuleStep(LoginRules[2], df, _filter_off_hours(df),
                     ReportPath(LOGIN_CHECK_REPORT_BASE, LOGIN_REPORT_OFF_HOURS_SUFFIX),
                     "login_3")

mode_login_holiday_weekend ==
    /\ pc = "login_3"
    /\ mode_RuleStep(LoginRules[3], df, _filter_holiday_and_weekend(df),
                     ReportPath(LOGIN_CHECK_REPORT_BASE, LOGIN_REPORT_HOLIDAY_SUFFIX),
                     "returned")

\* One view/save-volume rule of mode/personal_file_checker.py:
\* _extract_and_save_by_job opens the workbook at save_path before it looks
\* at the employees selected.  Closing a workbook that got no sheet raises
\* with one Excel engine and writes an empty sheet with the other.
mode_JobStep(rule, given, r, save_path, next) ==
    /\ results' = [results EXCEPT ![rule] = r]
    /\ calls' = Append(calls, [rule |-> rule, given |-> given])
    /\ df' = df
    /\ UNCHANGED <<main, download_dir>>
    /\ IF r.error # "none"
       THEN pc' = "raised" /\ files' = files
       ELSE \/ pc' = next /\ files' = files \cup {save_path}
            \/ pc' = "raised" /\ files' = files \cup {save_path}
            \/ pc' = "raised" /\ files' = files

mode_access_acquire ==
    /\ pc = "idle"
    /\ \/ \E t \in AccessTables : df' = t /\ pc' = "access_1"
       \/ df' = None /\ pc' = "raised"
    /\ UNCHANGED <<results, calls, files, main, download_dir>>

mode_access_master ==
    /\ pc = "access_1"
    /\ RuleStep(AccessRules[1], df, _filter_by_job_master_exclude_detail_id(df),
                AccessReportPath(PERSONAL_INFO_ACCESS_MASTER_SUFFIX), "access_2")

mode_access_views ==
    /\ pc = "access_2"
    /\ mode_JobStep(AccessRules[2], df,
                    _extract_and_save_by_job(df, JOB_VIEW, VIEW_THRESHOLD, COL_JOB_PERFORMANCE),
                    AccessReportPath(PERSONAL_INFO_ACCESS_HIGH_VOLUME_VIEWS_SUFFIX),
                    "access_3")

mode_access_saves ==
    /\ pc = "access_3"
    /\ mode_JobStep(AccessRules[3], df,
                    _extract_and_save_by_job(df, JOB_SAVE, SAVE_THRESHOLD, COL_JOB_PERFORMANCE),
                    AccessReportPath(PERSONAL_INFO_ACCESS_HIGH_VOLUME_SAVES_SUFFIX),
                    "returned")

ModeNext ==
    \/ mode_login_acquire \/ mode_login_ip_switch \/ mode_login_off_hours
    \/ mode_login_holiday_weekend
    \/ mode_access_acquire \/ mode_access_master \/ mode_access_views \/ mode_access_saves

ModeSpec == Init /\ [][ModeNext]_vars

\* the report file of each rule
ReportOf(rule) ==
    CASE rule = "_check_download_sayu" -> "[att4] download reason(bad reason)_202610.xlsx"
      [] rule = "_filter_high_download_users" -> "[att4] download reason(over 100)_202610.xlsx"
      [] rule = "_filter_high_freq_download" ->
             "[att4] download reason(over 20 in 1 hour)_202610.xlsx"
      [] rule = "_filter_off_hour_and_holiday" -> "[att4] download reason(off hours)_202610.xlsx"
      [] rule = "_filter_ip_switch" -> "[att2] access record check(60 min IP)_202610.xlsx"
      [] rule = "_filter_off_hours" -> "[att2] access record check(off hours)_202610.xlsx"
      [] rule = "_filter_holiday_and_weekend" -> "[att2] access record check(holiday)_202610.xlsx"
      [] rule = "_filter_by_job_master_exclude_detail_id" ->
             "[att3] access record_202610(hr master).xlsx"
      [] rule = "_extract_and_save_by_job:view" -> "[att3] access record_202610(1000 views).xlsx"
      [] rule = "_extract_and_save_by_job:save" -> "[att3] access record_202610(100 saves).xlsx"

\* the rule returned and what it returned holds at least one event
NonEmpty(rule) ==
    /\ results[rule].error = "none"
    /\ IF rule \in {"_extract_and_save_by_job:view", "_extract_and_save_by_job:save"}
       THEN results[rule].sheets # <<>>
       ELSE results[rule].rows # <<>>

\* the run left its function while it worked on this rule
LeftAt(rule) == pc = "raised" /\ calls # <<>> /\ calls[Len(calls)].rule = rule

\* C11: the report of a rule is written exactly when the result of the rule
\* is not empty: a report file exists only for a rule that returned at least
\* one event (an empty result creates and opens no file), and a rule that
\* returned events and whose step went through has its report.
C11_Routing ==
    \A rule \in Rules :
        /\ ReportOf(rule) \in files => NonEmpty(rule)
        /\ (NonEmpty(rule) /\ ~LeftAt(rule)) => ReportOf(rule) \in files

-----------------------------------------------------------------------------
(* Family runs over sheets that break what the rules expect of their       *)
(* input: a column missing or out of place, an empty time cell.            *)

\* the download sheet with its 6th column under another label, without a 6th
\* column, and with the 5th and 6th columns exchanged; the login sheet with
\* the IP in its 9th column
MalformedColumns ==
    [relabelled |-> <<"no", "emp", "name", "time", "reason", "qty">>,
     short |-> <<"no", "emp", "name", "time", "reason">>,
     exchanged |-> <<"no", "emp", "name", "time", "count", "reason">>,
     login_exchanged |-> <<"no", "id_no", "name", "dept", "time", "system", "menu", "kind",
                           "ip", "result">>]

MalformedTables ==
    [sayu_checker |->
         {Frame(MalformedColumns.relabelled, Labelled(c)) : c \in
             SeqsOf({[n |-> 1, emp |-> 1, time |-> T0, reason |-> r, qty |-> 1] :
                        r \in {Text(<<"a", "a", "a">>), PlainReason}}, 1, MaxLocalRuns)}
         \cup {Frame(MalformedColumns.short, Labelled(c)) : c \in
             SeqsOf({[n |-> 1, emp |-> 1, time |-> T0, reason |-> r] :
                        r \in {Text(<<"a", "a", "a">>), PlainReason}}, 1, MaxLocalRuns)}
         \cup {Frame(MalformedColumns.exchanged, Labelled(c)) : c \in
             SeqsOf({DownloadCell(1, T0, r, 1, 1) : r \in {Text(<<"a", "a", "a">>), PlainReason}},
                    1, MaxLocalRuns)}
         \cup {Frame(DOWNLOAD_COLUMNS, Labelled(c)) : c \in
             SeqsOf({DownloadCell(1, NaT, PlainReason, 1, 1),
                     DownloadCell(1, T0, PlainReason, 1, 19),
                     DownloadCell(1, T0, PlainReason, 1, 20),
                     DownloadCell(1, At(2024, 3, 9, 23, 0, 0), Text(<<"a", "a", "a">>), 1, 1)},
                    1, MaxLocalRuns)},
     login_checker |->
         {Frame(MalformedColumns.login_exchanged, Labelled(<<LoginCell(1, T0, "A")>>))}
         \cup {Frame(LOGIN_COLUMNS, Labelled(c)) : c \in
             SeqsOf({LoginCell(1, NaT, "C"), LoginCell(1, T0, "A"), LoginCell(1, T0, "B"),
                     LoginCell(1, At(2024, 3, 9, 23, 0, 0), "C")}, 1, MaxRuns)}]

sayu_acquire_malformed ==
    /\ pc = "idle"
    /\ \E t \in MalformedTables.sayu_checker :
          /\ df' = t
          /\ files' = files \cup {MergedPath(DOWNLOAD_REASON_REPORT_BASE)}
          /\ pc' = "sayu_1"
    /\ UNCHANGED <<results, calls, main, download_dir>>

login_acquire_malformed ==
    /\ pc = "idle"
    /\ \E t \in MalformedTables.login_checker :
          /\ df' = t
          /\ files' = files \cup {MergedPath(LOGIN_CHECK_REPORT_BASE)}
          /\ pc' = IF Len(t.columns) >= 10 /\ t.columns[10] = COL_IP
                   THEN "login_1" ELSE "raised"
    /\ UNCHANGED <<results, calls, main, download_dir>>

MalformedNext ==
    \/ sayu_acquire_malformed \/ sayu_invalid_reason \/ sayu_high_download \/ sayu_high_freq
    \/ sayu_off_hours_holiday
    \/ login_acquire_malformed \/ login_ip_switch \/ login_off_hours \/ login_holiday_weekend

MalformedSpec == Init /\ [][MalformedNext]_vars

-----------------------------------------------------------------------------
(* main(): src/src/main.py calls the three family functions one after the  *)
(* other, each inside try/except.                                          *)

\* the tables a batch may find for each family
BatchTables ==
    [sayu_checker |->
         {Frame(MalformedColumns.relabelled,
                Labelled(<<[n |-> 1, emp |-> 1, time |-> T0, reason |-> PlainReason,
                            qty |-> 1]>>))}
         \cup
         {Frame(DOWNLOAD_COLUMNS, Labelled(c)) : c \in
             {DownloadScenario,
              <<DownloadCell(1, T0, PlainReason, 1, 1)>>,
              <<DownloadCell(1, T0, Text(<<"a", "a", "a">>), 1, 1),
                DownloadCell(2, T0, NaN, 1, 1)>>,
              <<DownloadCell(1, At(2024, 3, 9, 23, 0, 0), Text(<<"a", "a", "a">>), 1, 1)>>}},
     login_checker |->
         {Frame(LOGIN_COLUMNS, Labelled(c)) : c \in
             {LoginScenario, <<>>, <<LoginCell(1, At(2024, 3, 9, 10, 0, 0), "A")>>,
              <<LoginCell(1, At(2024, 3, 9, 23, 0, 0), "C")>>,
              <<LoginCell(1, NaT, "C"), LoginCell(1, T0, "A")>>}},
     personal_file_checker |->
         {Frame(ACCESS_COLUMNS, Labelled(c)) : c \in
             {<<AccessCell(3, "other", JOB_VIEW, NaN, LongName, 1000)>>,
              <<AccessCell(12, HR_MASTER, JOB_VIEW, Text(<<"x", "3", "y">>), ShortName, 1),
                AccessCell(3, HR_MASTER, JOB_VIEW, Text(<<"x", "3", "y">>), ShortName, 1)>>}}]

\* the exception the family function was left with (pc = "raised"): no table,
\* the login sheet without its IP column, the exception of the last rule
\* called, or else the exception of the writer of its report
Raised ==
    IF calls = <<>> THEN (IF df = None THEN "FileNotFoundError" ELSE "ValueError")
    ELSE IF results[calls[Len(calls)].rule].error # "none"
    THEN results[calls[Len(calls)].rule].error
    ELSE "OSError"

\* SAVE_DIR or DOWNLOAD_DIR is not set: main returns before the first family
main_configure ==
    /\ main.at = "start"
    /\ \/ main' = [main EXCEPT !.at = "not configured"]
       \/ main' = [main EXCEPT !.at = "sayu_checker"]
    /\ UNCHANGED <<pc, df, results, calls, files, download_dir>>

main_sayu_checker ==
    /\ main.at = "sayu_checker"
    /\ sayu_acquire \/ sayu_acquire_malformed
    /\ df' \in BatchTables.sayu_checker \cup {None}

main_login_checker ==
    /\ main.at = "login_checker"
    /\ login_acquire \/ login_acquire_malformed
    /\ df' \in BatchTables.login_checker \cup {None}

main_personal_file_checker ==
    /\ main.at = "personal_file_checker"
    /\ access_acquire
    /\ df' \in BatchTables.personal_file_checker \cup {None}

\* The family function is left, by its end or by an exception: main takes
\* no value from the call, prints how it ended and goes on to what follows.
\* The entry added to the log keeps what the call looked like at that point.
main_resume(family, next) ==
    /\ main.at = family
    /\ pc \in {"returned", "raised"}
    /\ main' = [at |-> next,
                total |-> main.total,
                log |-> Append(main.log,
                               [family |-> family,
                                outcome |-> IF pc = "returned" THEN "completed" ELSE Raised,
                                value |-> IF pc = "returned" THEN [tag |-> "None", v |-> 0]
                                          ELSE [tag |-> "raised", v |-> 0],
                                acquired |-> df # None,
                                rows |-> RowCount(df.rows),
                                called |-> Len(calls),
                                files |-> files])]
    /\ pc' = "idle"
    /\ df' = None
    /\ results' = [r \in Rules |-> NotRun]
    /\ calls' = <<>>
    /\ UNCHANGED <<files, download_dir>>

\* main with the handler of FileNotFoundError only: any other exception of
\* the download family leaves main
main_after_sayu_checker_narrow ==
    IF pc = "raised" /\ Raised # "FileNotFoundError"
    THEN /\ main.at = "sayu_checker"
         /\ main' = [main EXCEPT !.at = "aborted"]
         /\ UNCHANGED <<pc, df, results, calls, files, download_dir>>
    ELSE main_resume("sayu_checker", "login_checker")

main_after_sayu_checker == main_resume("sayu_checker", "login_checker")
main_after_login_checker == main_resume("login_checker", "personal_file_checker")
main_after_personal_file_checker == main_resume("personal_file_checker", "finished")

MainNext ==
    \/ main_configure
    \/ main_sayu_checker \/ sayu_invalid_reason \/ sayu_high_download \/ sayu_high_freq
    \/ sayu_off_hours_holiday \/ main_after_sayu_checker
    \/ main_login_checker \/ login_ip_switch \/ login_off_hours \/ login_holiday_weekend
    \/ main_after_login_checker
    \/ main_personal_file_checker \/ access_master \/ access_views \/ access_saves
    \/ main_after_personal_file_checker

MainSpec == Init /\ [][MainNext]_vars

Families == <<"sayu_checker", "login_checker", "personal_file_checker">>

\* the rules of each family
FamilyRules(family) ==
    CASE family = "sayu_checker" -> {SayuRules[i] : i \in 1..Len(SayuRules)}
      [] family = "login_checker" -> {LoginRules[i] : i \in 1..Len(LoginRules)}
      [] family = "personal_file_checker" -> {AccessRules[i] : i \in 1..Len(AccessRules)}

\* what main does after the family numbered i
After(i) == IF i < 3 THEN Families[i + 1] ELSE "finished"

\* C12: when no table can be acquired for a family, the run of the family
\* is left before any rule is called and before any report of its rules is
\* written, it reports zero processed rows, and main goes on with what
\* follows the family.
C12_MissingInput ==
    \A i \in 1..Len(main.log) :
        ~main.log[i].acquired =>
            /\ main.log[i].called = 0
            /\ main.log[i].files \cap {ReportOf(r) : r \in FamilyRules(main.log[i].family)} = {}
            /\ main.log[i].value = [tag |-> "int", v |-> 0]
            /\ i = Len(main.log) => main.at = After(i)

\* the parts of C12 that do not speak of the count reported
C12_ShortCircuit ==
    \A i \in 1..Len(main.log) :
        ~main.log[i].acquired =>
            /\ main.log[i].called = 0
            /\ main.log[i].files \cap {ReportOf(r) : r \in FamilyRules(main.log[i].family)} = {}
            /\ main.log[i].outcome = "FileNotFoundError"
            /\ i = Len(main.log) => main.at = After(i)

\* every column a rule of the family reads is there, the positional ones in
\* their place
SchemaOk(d) ==
    \/ d.columns = DOWNLOAD_COLUMNS
    \/ d.columns = LOGIN_COLUMNS

\* C13: the columns the rules of a family need are checked before the first
\* rule runs: when one is missing or out of place the run fails, and then no
\* rule of the family has returned a result and no report of the family has
\* been written.
C13_ValidateFirst ==
    (df # None /\ ~SchemaOk(df)) =>
        /\ \A rule \in Rules : ~HasRun(rule) /\ ReportOf(rule) \notin files
        /\ pc # "returned"

C15_OutputFailureLocal ==
    /\ \A rule \in Rules : LeftAt(rule) => results[rule].error # "none"
    /\ (pc \in {"returned", "raised"} /\ calls # <<>>
            /\ \A i \in 1..Len(calls) : results[calls[i].rule].error = "none") =>
           Len(calls) = (IF df.columns = DOWNLOAD_COLUMNS THEN 4 ELSE 3)

\* the rules that read the time of an event
TimeRules == {"_filter_high_freq_download", "_filter_off_hour_and_holiday",
              "_filter_ip_switch", "_filter_off_hours", "_filter_holiday_and_weekend"}

\* C16: a time-based rule that is given a table in which the time of some row
\* is missing fails with an error: it never returns a result computed as if
\* that row were absent or did not match.
C16_InvalidTimestamp ==
    \A i \in 1..Len(calls) :
        (/\ calls[i].rule \in TimeRules
         /\ SchemaOk(calls[i].given)
         /\ NaT \in ColumnValues(calls[i].given.rows, COL_ACCESS_TIME)) =>
            results[calls[i].rule].error \notin {"none", "not run"}

\* the sum of the input rows of the family runs logged so far
RECURSIVE RowsLogged(_)
RowsLogged(log) ==
    IF log = <<>> THEN 0
    ELSE (IF Head(log).acquired THEN Head(log).rows ELSE 0) + RowsLogged(Tail(log))

\* C17: every family run hands back to main the number of rows of the input
\* table it worked on, 0 when it acquired none, and the total main reports
\* when the batch is finished is the sum of the three numbers.
C17_Aggregate ==
    /\ \A i \in 1..Len(main.log) :
           main.log[i].value =
               [tag |-> "int", v |-> IF main.log[i].acquired THEN main.log[i].rows ELSE 0]
    /\ main.at = "finished" => main.total = [tag |-> "int", v |-> RowsLogged(main.log)]

\* the rule was the last one called and it returned a result
JustRan(rule) == HasRun(rule) /\ calls[Len(calls)].rule = rule

\* Two-pointer sweep over one time-sorted group.  The leading pointer hi only
\* moves forward: it rests on the last event not later than bound.
RECURSIVE Advance(_, _, _)
Advance(group, hi, bound) ==
    IF hi < Len(group) /\ group[hi + 1].time <= bound
    THEN Advance(group, hi + 1, bound) ELSE hi

\* the qualifying predicate on the events at the positions first..hi:
\* ">= N events" ("count") or ">= N distinct addresses" ("distinct")
Qualifies(group, first, hi, kind, N) ==
    IF kind = "count"
    THEN RunTotal(group, first..hi) >= N
    ELSE Cardinality({group[x].ip : x \in first..hi}) >= N

\* The anchor lo walks the group once; first trails at the first event that
\* has the time of the anchor, hi leads at the last event within one hour of
\* it.  Both pointers are carried from one anchor to the next.
RECURSIVE Sweep(_, _, _, _, _, _)
Sweep(group, lo, first, hi, kind, N) ==
    IF lo > Len(group) THEN {}
    ELSE LET f == IF lo > 1 /\ group[lo - 1].time = group[lo].time THEN first ELSE lo
             h == Advance(group, IF hi < lo THEN lo ELSE hi, group[lo].time + 3600)
         IN  (IF Qualifies(group, f, h, kind, N)
              THEN {group[x].index : x \in f..h} ELSE {})
             \cup Sweep(group, lo + 1, f, h, kind, N)

\* the sweep of every employee group of a table
SweepFlagged(rows, empcol, kind, N) ==
    UNION {Sweep(sort_values(GroupRows(rows, empcol, e), <<"time">>), 1, 1, 1, kind, N) :
           e \in ColumnValues(rows, empcol)}

\* C18: when either rule returns, for both qualifying predicates (at least 20 events, at least 3
\* distinct addresses) the rows flagged by the scan that anchors a window at
\* every event of an employee are exactly the rows flagged by a two-pointer
\* sweep over the time-sorted group, in whatever order the table presents
\* its rows.
C18_ScanEquivalence ==
    /\ JustRan("_filter_high_freq_download") =>
           Flagged("_filter_high_freq_download") = SweepFlagged(df.rows, "emp", "count", 20)
    /\ JustRan("_filter_ip_switch") =>
           Flagged("_filter_ip_switch") = SweepFlagged(df.rows, "id_no", "distinct", 3)

\* the table presents the logins of an employee out of time order, two of
\* them at the same instant, and the scan flagged some of them but not all
C18_Witness ==
    /\ JustRan("_filter_ip_switch")
    /\ Flagged("_filter_ip_switch") # {}
    /\ \E e, f, g \in Pos(df) :
          /\ e < f /\ f # g
          /\ df.rows[e].id_no = df.rows[f].id_no /\ df.rows[f].id_no = df.rows[g].id_no
          /\ df.rows[e].time > df.rows[f].time
          /\ df.rows[f].time = df.rows[g].time
          /\ df.rows[f].index \in Flagged("_filter_ip_switch")
          /\ df.rows[e].index \notin Flagged("_filter_ip_switch")

\* thresholds tried for the sum of download counts and for the number of
\* events of one job, in ascending order: below, at and above the sums and
\* counts of the tables
SumThresholds == <<0, 5, 95, 100, 101, 200>>
CountThresholds == <<1, 99, 100, 999, 1000, 1001>>

\* what _extract_and_save_by_job selects from the acquired table at a threshold
SheetsAt(job, threshold) ==
    _extract_and_save_by_job(df, job, threshold, COL_JOB_PERFORMANCE).sheets
SheetEmployees(sheets) == {sheets[i].employee_id : i \in DOMAIN sheets}
SheetEvents(sheets) == UNION {IndexSet(sheets[i].rows) : i \in DOMAIN sheets}

\* the events of the employees E in the acquired table
EventsOfEmployees(E) == {df.rows[x].index : x \in {y \in Pos(df) : df.rows[y].emp \in E}}

\* the selections of the sum rule at each of SumThresholds
TargetUsersAtEach ==
    <<target_users_at(df, SumThresholds[1]), target_users_at(df, SumThresholds[2]),
      target_users_at(df, SumThresholds[3]), target_users_at(df, SumThresholds[4]),
      target_users_at(df, SumThresholds[5]), target_users_at(df, SumThresholds[6])>>

\* the groups of the count-by-action rule at each of CountThresholds
SheetsAtEach(job) ==
    <<SheetsAt(job, CountThresholds[1]), SheetsAt(job, CountThresholds[2]),
      SheetsAt(job, CountThresholds[3]), SheetsAt(job, CountThresholds[4]),
      SheetsAt(job, CountThresholds[5]), SheetsAt(job, CountThresholds[6])>>

\* C20: when either rule returns, on the table it was given, raising the
\* threshold never adds to the selection: for T1 <= T2 the employees (and so
\* the events) selected by the sum rule at T2 are among those selected at T1,
\* and the employees and events put into groups by the count-by-action rule
\* at T2 are among those at T1.  The selection at the threshold of the code
\* is the one the rule returned.
C20_ThresholdMonotonic ==
    /\ JustRan("_filter_high_download_users") =>
          LET selected == TargetUsersAtEach
          IN  /\ \A i, j \in DOMAIN SumThresholds :
                    SumThresholds[i] <= SumThresholds[j] =>
                       /\ selected[j] \subseteq selected[i]
                       /\ EventsOfEmployees(selected[j]) \subseteq EventsOfEmployees(selected[i])
              /\ \E i \in DOMAIN SumThresholds :
                    /\ SumThresholds[i] = DOWNLOAD_COUNT_THRESHOLD
                    /\ Flagged("_filter_high_download_users") = EventsOfEmployees(selected[i])
    /\ \A job \in {JOB_VIEW, JOB_SAVE} :
          JustRan("_extract_and_save_by_job:" \o job) =>
             LET sheets == SheetsAtEach(job)
             IN  /\ \A i, j \in DOMAIN CountThresholds :
                       CountThresholds[i] <= CountThresholds[j] =>
                          /\ SheetEmployees(sheets[j]) \subseteq SheetEmployees(sheets[i])
                          /\ SheetEvents(sheets[j]) \subseteq SheetEvents(sheets[i])
                 /\ \E i \in DOMAIN CountThresholds :
                       /\ CountThresholds[i] =
                              (IF job = JOB_VIEW THEN VIEW_THRESHOLD ELSE SAVE_THRESHOLD)
                       /\ results["_extract_and_save_by_job:" \o job].sheets = sheets[i]

\* the sum rule ran on a table of two employees of whom the higher threshold
\* selects one and the lower threshold both
C20_Witness ==
    /\ JustRan("_filter_high_download_users")
    /\ \E i, j \in DOMAIN SumThresholds :
          /\ SumThresholds[i] < SumThresholds[j]
          /\ TargetUsersAtEach[j] # {}
          /\ TargetUsersAtEach[j] # TargetUsersAtEach[i]
          /\ Flagged("_filter_high_download_users") = EventsOfEmployees(TargetUsersAtEach[j])

\* the count-by-action rule ran on a table where raising the threshold from
\* 999 to 1000 views drops one employee and keeps another
C20_WitnessByAction ==
    /\ JustRan("_extract_and_save_by_job:view")
    /\ SheetEmployees(SheetsAt(JOB_VIEW, 1000)) # {}
    /\ SheetEmployees(SheetsAt(JOB_VIEW, 1000)) # SheetEmployees(SheetsAt(JOB_VIEW, 999))

\* rows ordered by employee ascending and, within an employee, by time
Ordered(rows, empcol) ==
    \A i, j \in 1..Len(rows) :
        i < j => \/ rows[i][empcol] < rows[j][empcol]
                 \/ rows[i][empcol] = rows[j][empcol] /\ rows[i].time <= rows[j].time

\* the rules whose result is one table, with the employee column of each
FlatRules ==
    [r \in Rules \ {"_extract_and_save_by_job:view", "_extract_and_save_by_job:save"} |->
        IF r \in {LoginRules[i] : i \in 1..Len(LoginRules)} THEN "id_no" ELSE "emp"]

\* every result that is one table is ordered by employee, then time
FlatResultsOrdered ==
    \A r \in DOMAIN FlatRules : JustRan(r) => Ordered(results[r].rows, FlatRules[r])

\* C21: every result handed to the report writer is ordered by employee
\* ascending and, within an employee, by time ascending: the one table of
\* the windowed, sum, content and calendar rules, and each per-employee
\* group of the view/save-volume rules, whose groups come in employee order.
C21_ResultOrdering ==
    /\ FlatResultsOrdered
    /\ \A job \in {JOB_VIEW, JOB_SAVE} :
          JustRan("_extract_and_save_by_job:" \o job) =>
             LET sheets == results["_extract_and_save_by_job:" \o job].sheets
             IN  /\ \A i, j \in DOMAIN sheets :
                       i < j => sheets[i].employee_id < sheets[j].employee_id
                 /\ \A i \in DOMAIN sheets : Ordered(sheets[i].rows, "emp")

FullSheetName(e) ==
    LET first == CHOOSE x \in Pos(df) :
                    /\ df.rows[x].emp = e
                    /\ \A y \in Pos(df) : df.rows[y].emp = e => x <= y
    IN  py_str(IntV(e)) \o <<"_">> \o py_str(df.rows[first].name)

\* the first 31 characters of a string, the whole of a shorter one
First31(str) == [k \in 1..(IF Len(str) <= 31 THEN Len(str) ELSE 31) |-> str[k]]

\* C23: when a view/save-volume rule returns, the sheet of each selected
\* employee is named with the first 31 characters of
\* "{employee_id}_{display_name}" (all of it when it has at most 31), the
\* display name being the one on the employee's first event, and there is
\* exactly one sheet per selected employee, no two sheets sharing a name.
C23_SheetNaming ==
    \A job \in {JOB_VIEW, JOB_SAVE} :
        JustRan("_extract_and_save_by_job:" \o job) =>
            LET sheets == results["_extract_and_save_by_job:" \o job].sheets
                selected == Selected(df.rows, "emp", job,
                                     IF job = JOB_VIEW THEN VIEW_THRESHOLD ELSE SAVE_THRESHOLD)
            IN  /\ \A i \in DOMAIN sheets :
                      sheets[i].sheet_name = First31(FullSheetName(sheets[i].employee_id))
                /\ \A e \in selected :
                      Cardinality({i \in DOMAIN sheets : sheets[i].employee_id = e}) = 1
                /\ Len(sheets) = Cardinality(selected)
                /\ \A i, j \in DOMAIN sheets :
                      sheets[i].sheet_name = sheets[j].sheet_name => i = j

\* the view-volume rule wrote two sheets: one whose full name is longer than
\* 31 characters and was cut, one whose name was kept whole
C23_Witness ==
    /\ JustRan("_extract_and_save_by_job:view")
    /\ LET sheets == results["_extract_and_save_by_job:view"].sheets
       IN  /\ Len(sheets) = 2
           /\ \E i, j \in DOMAIN sheets :
                 /\ Len(FullSheetName(sheets[i].employee_id)) > 31
                 /\ Len(sheets[i].sheet_name) = 31
                 /\ sheets[j].sheet_name = FullSheetName(sheets[j].employee_id)
                 /\ Len(sheets[j].sheet_name) < 31

\* the sets of events of one employee that lie within one hour of each other
\* (latest time - earliest time <= 1 hour)
Bursts(rows, empcol) ==
    {S \in SUBSET (1..Len(rows)) :
        /\ S # {}
        /\ \A x, y \in S : /\ rows[x][empcol] = rows[y][empcol]
                           /\ rows[x].time - rows[y].time <= 3600}

Tied(rows, empcol, x, y) ==
    x # y /\ rows[x][empcol] = rows[y][empcol] /\ rows[x].time = rows[y].time

\* C25: when a windowed rule returns, two events of one employee with equal
\* times are either both in the result or both left out, whichever of them
\* the table presents first.
C25_TimestampTies ==
    /\ JustRan("_filter_high_freq_download") =>
          \A x, y \in Pos(df) :
             Tied(df.rows, "emp", x, y) =>
                (df.rows[x].index \in Flagged("_filter_high_freq_download")
                    <=> df.rows[y].index \in Flagged("_filter_high_freq_download"))
    /\ JustRan("_filter_ip_switch") =>
          \A x, y \in Pos(df) :
             Tied(df.rows, "id_no", x, y) =>
                (df.rows[x].index \in Flagged("_filter_ip_switch")
                    <=> df.rows[y].index \in Flagged("_filter_ip_switch"))

\* a single download tied with 19 downloads presented after it: both rows
\* were flagged, and a download of the same employee past the hour was not
C25_Witness ==
    /\ JustRan("_filter_high_freq_download")
    /\ \E x, y, z \in Pos(df) :
          /\ x < y
          /\ Tied(df.rows, "emp", x, y)
          /\ df.rows[x].n = 1 /\ df.rows[y].n = 19
          /\ df.rows[x].index \in Flagged("_filter_high_freq_download")
          /\ df.rows[y].index \in Flagged("_filter_high_freq_download")
          /\ df.rows[z].emp = df.rows[x].emp
          /\ df.rows[z].index \notin Flagged("_filter_high_freq_download")

\* the rule was the last one called, whatever came of it
LastCalled(rule) == calls # <<>> /\ calls[Len(calls)].rule = rule

\* C26: when a windowed rule is called on a table in which no window of any
\* employee qualifies, a table without rows included, it raises no error and
\* returns a table without rows whose columns are those of the input table,
\* in the same order.
C26_EmptyWindowedResult ==
    /\ (LastCalled("_filter_high_freq_download") /\ BurstAnchors(df.rows) = {}) =>
          results["_filter_high_freq_download"] =
              [error |-> "none", columns |-> df.columns, rows |-> <<>>]
    /\ (LastCalled("_filter_ip_switch") /\ SwitchAnchors(df.rows) = {}) =>
          results["_filter_ip_switch"] =
              [error |-> "none", columns |-> df.columns, rows |-> <<>>]

\* the IP-switch rule was called on a login table without rows and returned
\* an empty table with the ten login columns
C26_Witness ==
    /\ LastCalled("_filter_ip_switch")
    /\ df.rows = <<>>
    /\ results["_filter_ip_switch"].error = "none"
    /\ Len(results["_filter_ip_switch"].columns) = 10

\* the high-frequency rule was called on downloads of which no hour holds 20
C26_WitnessDownloads ==
    /\ LastCalled("_filter_high_freq_download")
    /\ Len(df.rows) >= 2
    /\ results["_filter_high_freq_download"].rows = <<>>

\* the table cut down to the events of employee g, labels and order kept
OnlyOf(d, empcol, g) ==
    Frame(d.columns,
          SelectRows(d.rows, {d.rows[x].index : x \in {y \in Pos(d) : d.rows[y][empcol] = g}}))

\* the labels of the events of employee g
LabelsOf(d, empcol, g) == {d.rows[x].index : x \in {y \in Pos(d) : d.rows[y][empcol] = g}}

\* what the rule flags of g's events is what it flags on g's events alone
AloneAsAmongOthers(rule, empcol) ==
    JustRan(rule) =>
        \A g \in ColumnValues(df.rows, empcol) :
            Flagged(rule) \cap LabelsOf(df, empcol, g) =
                IndexSet(RuleOn(rule, OnlyOf(df, empcol, g)).rows)

\* C28: when a windowed rule or a threshold rule returns, the events of an
\* employee g that are in the result are those the rule returns on the table
\* that holds g's events alone: whatever events other employees have, the
\* flagged subset of g's events is the same.  For the count-by-action rule
\* the groups written for g are the same.
C28_GroupIndependence ==
    /\ AloneAsAmongOthers("_filter_high_freq_download", "emp")
    /\ AloneAsAmongOthers("_filter_ip_switch", "id_no")
    /\ AloneAsAmongOthers("_filter_high_download_users", "emp")
    /\ \A rule \in {"_extract_and_save_by_job:view", "_extract_and_save_by_job:save"} :
          JustRan(rule) =>
             \A g \in ColumnValues(df.rows, "emp") :
                LET sheets == results[rule].sheets
                IN  {sheets[i] : i \in {k \in DOMAIN sheets : sheets[k].employee_id = g}} =
                    {RuleOn(rule, OnlyOf(df, "emp", g)).sheets[i] :
                        i \in DOMAIN RuleOn(rule, OnlyOf(df, "emp", g)).sheets}

\* the downloads of one employee were flagged and those of another employee,
\* made at the same instant, were not
C28_Witness ==
    /\ JustRan("_filter_high_freq_download")
    /\ \E x, y \in Pos(df) :
          /\ df.rows[x].emp # df.rows[y].emp
          /\ df.rows[x].time = df.rows[y].time
          /\ df.rows[x].index \in Flagged("_filter_high_freq_download")
          /\ df.rows[y].index \notin Flagged("_filter_high_freq_download")


\* the calendar classes of an instant, each read off the instant alone
Weekend(t) == dt_weekday(t) \in {5, 6}
PublicHoliday(t) == dt_date(t) \in PublicHolidays
OffHours(t, start, end) == HourOf(t) >= start \/ HourOf(t) < end

C29_WitnessDownloads ==
    /\ JustRan("_filter_off_hour_and_holiday")
    /\ \E a \in Pos(df) :
          /\ df.rows[a].index \in Flagged("_filter_off_hour_and_holiday")
          /\ \/ WorkingDay(df.rows[a].time) /\ OffHours(df.rows[a].time, 23, 8)
             \/ Weekend(df.rows[a].time) /\ HourOf(df.rows[a].time) = 10

-----------------------------------------------------------------------------
(* The three family functions as workers that run side by side.  Each       *)
(* worker is the family function of src/src/checkers with its own table and *)
(* its own position; the report directory is the one thing they share.      *)
(* Here pc, df and calls hold one value per family.                         *)

\* the path a family function gives the report of a rule
SavePath(rule) ==
    CASE rule = SayuRules[1] ->
             ReportPath(DOWNLOAD_REASON_REPORT_BASE, DOWNLOAD_REASON_INVALID_REASON_SUFFIX)
      [] rule = SayuRules[2] ->
             ReportPath(DOWNLOAD_REASON_REPORT_BASE, DOWNLOAD_REASON_HIGH_DOWNLOAD_COUNT_SUFFIX)
      [] rule = SayuRules[3] ->
             ReportPath(DOWNLOAD_REASON_REPORT_BASE, DOWNLOAD_REASON_HIGH_FREQUENCY_SUFFIX)
      [] rule = SayuRules[4] ->
             ReportPath(DOWNLOAD_REASON_REPORT_BASE, DOWNLOAD_REASON_OFF_HOURS_SUFFIX)
      [] rule = LoginRules[1] ->
             ReportPath(LOGIN_CHECK_REPORT_BASE, LOGIN_REPORT_IP_SWITCH_SUFFIX)
      [] rule = LoginRules[2] ->
             ReportPath(LOGIN_CHECK_REPORT_BASE, LOGIN_REPORT_OFF_HOURS_SUFFIX)
      [] rule = LoginRules[3] ->
             ReportPath(LOGIN_CHECK_REPORT_BASE, LOGIN_REPORT_HOLIDAY_SUFFIX)
      [] rule = AccessRules[1] -> AccessReportPath(PERSONAL_INFO_ACCESS_MASTER_SUFFIX)
      [] rule = AccessRules[2] ->
             AccessReportPath(PERSONAL_INFO_ACCESS_HIGH_VOLUME_VIEWS_SUFFIX)
      [] rule = AccessRules[3] ->
             AccessReportPath(PERSONAL_INFO_ACCESS_HIGH_VOLUME_SAVES_SUFFIX)

\* the rules of a family in the order its function calls them
RuleSeq(family) ==
    CASE family = "sayu_checker" -> SayuRules
      [] family = "login_checker" -> LoginRules
      [] family = "personal_file_checker" -> AccessRules

\* a worker finds its input (find_and_prepare_excel_file writes the merged
\* copy; personal_file_checker merges without writing one) or finds none
worker_acquire(family) ==
    /\ pc[family] = "idle"
    /\ \E t \in BatchTables[family] \cup {None} :
          /\ df' = [df EXCEPT ![family] = t]
          /\ files' = IF t = None \/ family = "personal_file_checker" THEN files
                      ELSE files \cup {MergedPath(IF family = "sayu_checker"
                                                  THEN DOWNLOAD_REASON_REPORT_BASE
                                                  ELSE LOGIN_CHECK_REPORT_BASE)}
          /\ pc' = [pc EXCEPT ![family] =
                       IF t = None THEN "raised"
                       ELSE IF family = "login_checker"
                               /\ ~(Len(t.columns) >= 10 /\ t.columns[10] = COL_IP)
                       THEN "raised"
                       ELSE RuleSeq(family)[1]]
    /\ UNCHANGED <<results, calls, main, download_dir>>

\* a worker calls its next rule on its table and writes the report of a
\* result that is not empty; the rule or the writer may raise
worker_rule(family) ==
    /\ \E k \in 1..Len(RuleSeq(family)) : pc[family] = RuleSeq(family)[k]
    /\ LET rule == pc[family]
           r == RuleOn(rule, df[family])
           emits == /\ r.error = "none"
                    /\ IF rule \in {AccessRules[2], AccessRules[3]}
                       THEN r.sheets # <<>> ELSE r.rows # <<>>
           i == CHOOSE k \in 1..Len(RuleSeq(family)) : RuleSeq(family)[k] = rule
           next == IF i = Len(RuleSeq(family)) THEN "returned" ELSE RuleSeq(family)[i + 1]
           Done(to, wrote) ==
               /\ pc' = [pc EXCEPT ![family] = to]
               /\ calls' = [calls EXCEPT ![family] =
                               Append(@, [rule |-> rule, given |-> df[family], wrote |-> wrote])]
               /\ files' = IF wrote THEN files \cup {SavePath(rule)} ELSE files
       IN  /\ results' = [results EXCEPT ![rule] = r]
           /\ \/ r.error # "none" /\ Done("raised", FALSE)
              \/ r.error = "none" /\ ~emits /\ Done(next, FALSE)
              \/ emits /\ Done(next, TRUE)
              \/ emits /\ Done("raised", FALSE)
              \/ emits /\ Done("raised", TRUE)
    /\ UNCHANGED <<df, main, download_dir>>

ParNext ==
    \E family \in {"sayu_checker", "login_checker", "personal_file_checker"} :
        worker_acquire(family) \/ worker_rule(family)

\* no worker has started
ParInit ==
    /\ pc = [family \in {"sayu_checker", "login_checker", "personal_file_checker"} |-> "idle"]
    /\ df = [family \in {"sayu_checker", "login_checker", "personal_file_checker"} |-> None]
    /\ calls = [family \in {"sayu_checker", "login_checker", "personal_file_checker"} |-> <<>>]
    /\ results = [r \in Rules |-> NotRun]
    /\ files = {}
    /\ main = [at |-> "workers", log |-> <<>>, total |-> [tag |-> "None", v |-> 0]]
    /\ download_dir = <<>>

ParSpec == ParInit /\ [][ParNext]_vars

\* the files a worker has written by itself: the merged copy of its input
\* and the report of each rule whose write went through
FilesOfWorker(family) ==
    (IF df[family] = None \/ family = "personal_file_checker" THEN {}
     ELSE IF family = "sayu_checker" THEN {"[att4] download reason_202610.xlsx"}
     ELSE {"[att2] access record check_202610.xlsx"})
    \cup {ReportOf(calls[family][i].rule) :
             i \in {k \in 1..Len(calls[family]) : calls[family][k].wrote}}

\* how many files a worker has written
WritesOfWorker(family) ==
    (IF df[family] = None \/ family = "personal_file_checker" THEN 0 ELSE 1)
    + Cardinality({k \in 1..Len(calls[family]) : calls[family][k].wrote})

\* C27: for one reporting period the names of the reports of all rules of
\* the three families and of the two merged copies are pairwise distinct;
\* and with the three family functions running side by side, in every
\* interleaving, no file is written twice (there are as many files as
\* writes) and the files in the report directory are those each worker
\* writes when it runs by itself.
C27_NoWriteContention ==
    /\ Cardinality({SavePath(r) : r \in Rules}
                   \cup {MergedPath(DOWNLOAD_REASON_REPORT_BASE),
                         MergedPath(LOGIN_CHECK_REPORT_BASE)}) = Cardinality(Rules) + 2
    /\ Cardinality(files) =
           WritesOfWorker("sayu_checker") + WritesOfWorker("login_checker")
           + WritesOfWorker("personal_file_checker")
    /\ files = FilesOfWorker("sayu_checker") \cup FilesOfWorker("login_checker")
                   \cup FilesOfWorker("personal_file_checker")

\* the download worker and the login worker are both past their off-hours
\* rule, each having written its "off hours" report, while the access worker
\* is still between two of its rules
C27_Witness ==
    /\ \E i \in 1..Len(calls["sayu_checker"]) :
          /\ calls["sayu_checker"][i].rule = "_filter_off_hour_and_holiday"
          /\ calls["sayu_checker"][i].wrote
    /\ \E i \in 1..Len(calls["login_checker"]) :
          /\ calls["login_checker"][i].rule = "_filter_off_hours"
          /\ calls["login_checker"][i].wrote
    /\ pc["login_checker"] = "_filter_holiday_and_weekend"
    /\ pc["personal_file_checker"] = "_extract_and_save_by_job:view"

-----------------------------------------------------------------------------
(* Reading the source files: a family function lists the files of          *)
(* download_dir that carry its prefix, reads them and merges what it read. *)

MaxFiles == 3

\* pd.concat(all_dfs, ignore_index=True): the rows of the frames one after
\* the other under new index labels 0, 1, ...
RECURSIVE pd_concat(_)
pd_concat(dfs) ==
    IF Len(dfs) = 1 THEN Frame(Head(dfs).columns, Labelled(Head(dfs).cells))
    ELSE Frame(Head(dfs).columns,
               Labelled(Labelled(Head(dfs).cells) \o pd_concat(Tail(dfs)).rows))

\* utils._merge_and_preprocess_files: the first file that cannot be read
\* ends the loop with return None
_merge_and_preprocess_files(excel_files) ==
    IF \E i \in 1..Len(excel_files) : ~excel_files[i].readable THEN None
    ELSE IF excel_files = <<>> THEN None
    ELSE pd_concat(excel_files)

\* the files of the directory whose name starts with the prefix of the family
Matching(dir, family) == SelectSeq(dir, LAMBDA f : f.prefix = family)

\* The family function up to its first rule.  sayu_checker and login_checker
\* take the table from find_and_prepare_excel_file, which also writes the
\* merged copy, and raise when it hands back None; personal_file_checker
\* reads the files itself, each inside its own try.
read_source_files(family) ==
    /\ pc = "idle"
    /\ LET excel_files == Matching(download_dir, family)
       IN  IF family = "personal_file_checker"
           THEN LET dfs == SelectSeq(excel_files, LAMBDA f : f.readable)
                IN  /\ files' = files
                    /\ IF excel_files = <<>> \/ dfs = <<>>
                       THEN df' = None /\ pc' = "raised"
                       ELSE df' = pd_concat(dfs) /\ pc' = "access_1"
           ELSE LET merged_df == _merge_and_preprocess_files(excel_files)
                    base == IF family = "sayu_checker" THEN DOWNLOAD_REASON_REPORT_BASE
                                                       ELSE LOGIN_CHECK_REPORT_BASE
                IN  IF merged_df = None
                    THEN df' = None /\ files' = files /\ pc' = "raised"
                    ELSE \/ /\ df' = merged_df
                            /\ files' = files \cup {MergedPath(base)}
                            /\ pc' = IF family = "sayu_checker" THEN "sayu_1"
                                     ELSE IF Len(merged_df.columns) >= 10
                                             /\ merged_df.columns[10] = COL_IP
                                     THEN "login_1" ELSE "raised"
                         \/ df' = None /\ files' = files /\ pc' = "raised"
    /\ UNCHANGED <<results, calls, main, download_dir>>

\* a directory of one to MaxFiles source files, each readable or not
IngestInit ==
    /\ pc = "idle"
    /\ df = None
    /\ results = [r \in Rules |-> NotRun]
    /\ calls = <<>>
    /\ files = {}
    /\ main = [at |-> "start", log |-> <<>>, total |-> [tag |-> "None", v |-> 0]]
    /\ download_dir \in
           SeqsOf({[prefix |-> "sayu_checker", readable |-> b, columns |-> DOWNLOAD_COLUMNS,
                    cells |-> <<DownloadCell(1, T0, Text(<<"a", "a", "a">>), 1, 1)>>]
                       : b \in BOOLEAN}
                  \cup {[prefix |-> "login_checker", readable |-> b, columns |-> LOGIN_COLUMNS,
                         cells |-> <<LoginCell(1, At(2024, 3, 9, 23, 0, 0), "A")>>]
                           : b \in BOOLEAN}
                  \cup {[prefix |-> "personal_file_checker", readable |-> b,
                         columns |-> ACCESS_COLUMNS,
                         cells |-> <<AccessCell(emp, HR_MASTER, JOB_VIEW, NaN, ShortName, 1)>>]
                           : b \in BOOLEAN, emp \in {12, 34}},
                  1, MaxFiles)

IngestNext ==
    \/ \E family \in {"sayu_checker", "login_checker", "personal_file_checker"} :
          read_source_files(family)
    \/ sayu_invalid_reason \/ sayu_high_download \/ sayu_high_freq \/ sayu_off_hours_holiday
    \/ login_ip_switch \/ login_off_hours \/ login_holiday_weekend
    \/ access_master \/ access_views \/ access_saves

IngestSpec == IngestInit /\ [][IngestNext]_vars

\* the family of a rule
FamilyOf(rule) == CHOOSE family \in {"sayu_checker", "login_checker", "personal_file_checker"} :
                      rule \in FamilyRules(family)

\* C30: in every family, a rule only ever runs on the table merged from all
\* the source files that match the family; when one matching file cannot be
\* read, no rule of the family runs on the merge of the other files.
C30_NoPartialIngestion ==
    \A i \in 1..Len(calls) :
        LET excel_files == Matching(download_dir, FamilyOf(calls[i].rule))
        IN  /\ \A k \in 1..Len(excel_files) : excel_files[k].readable
            /\ calls[i].given = pd_concat(excel_files)

\* the same for the two families that read through find_and_prepare_excel_file
C30_SharedLoader ==
    \A i \in 1..Len(calls) :
        FamilyOf(calls[i].rule) # "personal_file_checker" =>
            LET excel_files == Matching(download_dir, FamilyOf(calls[i].rule))
            IN  /\ \A k \in 1..Len(excel_files) : excel_files[k].readable
                /\ calls[i].given = pd_concat(excel_files)

\* a rule of the download family ran on the merge of two readable files
C30_SharedLoaderWitness ==
    /\ calls # <<>> /\ FamilyOf(calls[1].rule) = "sayu_checker"
    /\ Len(Matching(download_dir, "sayu_checker")) = 2
    /\ Len(calls[1].given.rows) = 2

====
